---- MODULE Spec2Model ----
(***************************************************************************)
(* Policy rule engine of ciq-ally-competitor-intel: the rule pack registry *)
(* (src/src/rules_registry.py) and the rule evaluator with its check       *)
(* library (src/src/rules_engine.py).                                      *)
(*                                                                         *)
(* Python values are tagged records, so that None, a missing key, a        *)
(* string, a list and a mapping stay distinct.  A string is a sequence of  *)
(* one-character strings.  An operation that can raise returns a record    *)
(* [k |-> "raise", exc |-> ...] instead of a value.                        *)
(***************************************************************************)
EXTENDS Integers, Sequences, FiniteSets, TLC

\* ------------------------------------------------------------------------
\* Characters and strings
\* ------------------------------------------------------------------------

UpperChars == << "A", "B", "C", "D", "E", "F", "G", "H", "I", "J", "K", "L", "M",
                 "N", "O", "P", "Q", "R", "S", "T", "U", "V", "W", "X", "Y", "Z" >>

LowerChars == << "a", "b", "c", "d", "e", "f", "g", "h", "i", "j", "k", "l", "m",
                 "n", "o", "p", "q", "r", "s", "t", "u", "v", "w", "x", "y", "z" >>

DigitChars == << "0", "1", "2", "3", "4", "5", "6", "7", "8", "9" >>

\* U+2022 (bullet) and U+2013 (en dash), as one character each
BulletChar == "u2022"

EnDashChar == "u2013"

SpaceChars == { " ", "\t", "\n" }

Range(s) == { s[i] : i \in DOMAIN s }

IsUpperChar(c) == c \in Range(UpperChars)

IsLowerChar(c) == c \in Range(LowerChars)

IsAlphaChar(c) == IsUpperChar(c) \/ IsLowerChar(c)

IsDigitChar(c) == c \in Range(DigitChars)

\* str.lower() on one character
LowerChar(c) ==
    IF IsUpperChar(c)
    THEN LowerChars[CHOOSE i \in DOMAIN UpperChars : UpperChars[i] = c]
    ELSE c

Lower(s) == [ i \in 1..Len(s) |-> LowerChar(s[i]) ]

\* str.lstrip(chars) / str.rstrip(chars) / str.strip()
RECURSIVE LStripChars(_, _)
LStripChars(s, chars) ==
    IF s # << >> /\ Head(s) \in chars THEN LStripChars(Tail(s), chars) ELSE s

RECURSIVE RStripChars(_, _)
RStripChars(s, chars) ==
    IF s # << >> /\ s[Len(s)] \in chars
    THEN RStripChars(SubSeq(s, 1, Len(s) - 1), chars)
    ELSE s

Strip(s) == RStripChars(LStripChars(s, SpaceChars), SpaceChars)

\* needle in hay (Python substring test)
Contains(hay, needle) ==
    \E i \in 0..(Len(hay) - Len(needle)) : SubSeq(hay, i + 1, i + Len(needle)) = needle

\* ------------------------------------------------------------------------
\* Python values
\* ------------------------------------------------------------------------

VAbsent == [t |-> "absent"]          \* the key is not in the mapping

VNone == [t |-> "none"]

VStr(s) == [t |-> "str", s |-> s]

VInt(n) == [t |-> "int", n |-> n]

VList(l) == [t |-> "list", l |-> l]

VDict(d) == [t |-> "dict", d |-> d]

\* bool(v)
Truthy(v) ==
    CASE v.t = "absent" -> FALSE
      [] v.t = "none"   -> FALSE
      [] v.t = "str"    -> v.s # << >>
      [] v.t = "int"    -> v.n # 0
      [] v.t = "list"   -> v.l # << >>
      [] v.t = "dict"   -> \E key \in DOMAIN v.d : v.d[key] # VAbsent
      [] v.t = "rule"   -> TRUE

\* a or b
PyOr(a, b) == IF Truthy(a) THEN a ELSE b

\* d.get(key, dflt) and d.get(key) on a mapping d
GetOr(d, key, dflt) == IF d.d[key] = VAbsent THEN dflt ELSE d.d[key]

Get(d, key) == GetOr(d, key, VNone)

Raise(exc) == [k |-> "raise", exc |-> exc]

Ok(v) == [k |-> "ok", v |-> v]

\* ------------------------------------------------------------------------
\* Rule pack registry (rules_registry.py)
\* ------------------------------------------------------------------------

\* {} where the code writes `r.get("scope") or {}` and `p.get("meta") or {}`
EmptyScope == VDict([market |-> VAbsent, categories |-> VAbsent])

EmptyMeta == VDict([policy_id |-> VAbsent, market |-> VAbsent, categories |-> VAbsent])

UnknownPolicy ==
    VStr(<< "u", "n", "k", "n", "o", "w", "n", "_", "p", "o", "l", "i", "c", "y" >>)


\* a slip: (s or "").lower(), the strip() left out
_norm_no_strip(s) == Lower(PyOr(s, VStr(<< >>)).s)

\* _norm(s): (s or "").strip().lower(), for s a string or None
_norm(s) == Lower(Strip(PyOr(s, VStr(<< >>)).s))

\* the test of the inner loop of _cat_match: a == b or a in b or b in a
CatPairMatch(a, b) == a = b \/ Contains(b, a) \/ Contains(a, b)

\* wc = [_norm(c) for c in want_cats if c]
WantNorms(want_cats) ==
    { _norm(want_cats.l[i]) : i \in { j \in DOMAIN want_cats.l : Truthy(want_cats.l[j]) } }

\* rc = [_norm(c) for c in rule_scope_cats]
RuleNorms(rule_scope_cats) ==
    { _norm(rule_scope_cats.l[i]) : i \in DOMAIN rule_scope_cats.l }

_cat_match(rule_scope_cats, want_cats) ==
    IF ~Truthy(want_cats) THEN TRUE
    ELSE IF ~Truthy(rule_scope_cats) THEN TRUE
    ELSE \E a \in RuleNorms(rule_scope_cats) :
            \E b \in WantNorms(want_cats) : CatPairMatch(a, b)


\* a slip: the market matched as a substring of a scoped market
MarketInSubstring(market, sm) ==
    CASE sm.t = "list" ->
            Ok(\E i \in DOMAIN sm.l : sm.l[i].t = "str" /\ Contains(sm.l[i].s, market.s))
      [] sm.t = "str"  -> Ok(Contains(sm.s, market.s))
      [] sm.t = "int"  -> Raise("TypeError")

\* market in scope["market"]: list membership by ==, substring test on a string
MarketIn(market, sm) ==
    CASE sm.t = "list" -> Ok(\E i \in DOMAIN sm.l : sm.l[i] = market)
      [] sm.t = "str"  -> Ok(Contains(sm.s, market.s))
      [] sm.t = "int"  -> Raise("TypeError")

\* ok_market = (not scope.get("market")) or (market in scope["market"])
ok_market(scope, market) ==
    IF ~Truthy(Get(scope, "market")) THEN Ok(TRUE) ELSE MarketIn(market, scope.d.market)

\* ok_cat = _cat_match(scope.get("categories"), categories)
ok_cat(scope, categories) == _cat_match(Get(scope, "categories"), categories)


\* a slip: if ok_market or ok_cat
EitherOk(okm, okc) == okm \/ okc

\* if ok_market and ok_cat
BothOk(okm, okc) == okm /\ okc


\* a slip: r.setdefault("policy_id", ...), a policy_id of the source rule kept
AnnotateKeep(r, meta) ==
    IF r.d.policy_id # VAbsent THEN r
    ELSE [r EXCEPT !.d.policy_id = GetOr(meta, "policy_id", UnknownPolicy)]

\* r = dict(r); r["policy_id"] = meta.get("policy_id", "unknown_policy")
Annotate(r, meta) == [r EXCEPT !.d.policy_id = GetOr(meta, "policy_id", UnknownPolicy)]

\* the body of the inner loop of select_rules for one rule r of a pack:
\* the entries it appends to sel (none or one), or the exception it raises
select_one(meta, r, market, categories) ==
    IF r.t # "dict" THEN Raise("AttributeError")
    ELSE LET scope == PyOr(Get(r, "scope"), EmptyScope)
         IN  IF scope.t # "dict" THEN Raise("AttributeError")
             ELSE LET okm == ok_market(scope, market)
                  IN  IF okm.k = "raise" THEN okm
                      ELSE IF BothOk(okm.v, ok_cat(scope, categories))
                           THEN Ok(<< Annotate(r, meta) >>)
                           ELSE Ok(<< >>)


\* a slip: a rule whose id is already selected is left out
RECURSIVE select_pack_rules_dedup(_, _, _, _, _)
select_pack_rules_dedup(meta, rs, market, categories, sel) ==
    IF rs = << >> THEN Ok(sel)
    ELSE LET one  == select_one(meta, Head(rs), market, categories)
             seen == one.k = "ok" /\ \E k \in DOMAIN sel, m \in DOMAIN one.v :
                                        sel[k].d.id = one.v[m].d.id
         IN  IF one.k = "raise" THEN one
             ELSE select_pack_rules_dedup(meta, Tail(rs), market, categories,
                                          IF seen THEN sel ELSE sel \o one.v)

RECURSIVE select_pack_rules(_, _, _, _, _)
select_pack_rules(meta, rs, market, categories, sel) ==
    IF rs = << >> THEN Ok(sel)
    ELSE LET one == select_one(meta, Head(rs), market, categories)
         IN  IF one.k = "raise" THEN one
             ELSE select_pack_rules(meta, Tail(rs), market, categories, sel \o one.v)

RECURSIVE select_from(_, _, _, _)
select_from(packs, market, categories, sel) ==
    IF packs = << >> THEN Ok(sel)
    ELSE LET p     == Head(packs)
             meta  == PyOr(Get(p, "meta"), EmptyMeta)
             rs    == PyOr(GetOr(p, "rules", VList(<< >>)), VList(<< >>))
             inner == select_pack_rules(meta, rs.l, market, categories, sel)
         IN  IF inner.k = "raise" THEN inner
             ELSE select_from(Tail(packs), market, categories, inner.v)

select_rules(packs, market, categories) == select_from(packs, market, categories, << >>)

\* ------------------------------------------------------------------------
\* Check library (rules_engine.py)
\* ------------------------------------------------------------------------

EmptyParams ==
    VDict([value |-> VAbsent, pattern |-> VAbsent, flags |-> VAbsent, punctuation |-> VAbsent])

RECURSIVE DecValue(_)
DecValue(s) ==
    IF s = << >> THEN 0
    ELSE 10 * DecValue(SubSeq(s, 1, Len(s) - 1))
         + (CHOOSE i \in DOMAIN DigitChars : DigitChars[i] = s[Len(s)]) - 1

\* int(v): an int, a string of decimal digits, or a value int() rejects
IntOf(v) ==
    CASE v.t = "int" -> Ok(v.n)
      [] v.t = "str" /\ v.s # << >> /\ (\A i \in DOMAIN v.s : IsDigitChar(v.s[i])) ->
            Ok(DecValue(v.s))
      [] v.t = "str" /\ (v.s = << >> \/ \E i \in DOMAIN v.s : IsAlphaChar(v.s[i])) ->
            Raise("ValueError")
      [] v.t \in {"none", "list", "dict"} -> Raise("TypeError")

\* a slip: the bound taken as exclusive
LenLt(n, bound) == n < bound

LenLe(n, bound) == n <= bound

LenGe(n, bound) == n >= bound

\* if "value" not in params: return True
MissingValuePasses(params) == params.d.value = VAbsent

\* what the four numeric checks do with params after their shape test:
\* `"value" not in params` (a TypeError on None), then int(params["value"])
ParamBound(params) ==
    IF params.t # "dict" THEN Raise("TypeError")
    ELSE IF MissingValuePasses(params) THEN [k |-> "missing"]
    ELSE IntOf(params.d.value)

\* the answer of a numeric check: pass without a bound, else cmp(len, bound)
BoundAnswer(b, holds) ==
    CASE b.k = "raise"   -> b
      [] b.k = "missing" -> Ok(TRUE)
      [] b.k = "ok"      -> Ok(holds)

IsStr(value) == value.t = "str"

IsList(value) == value.t = "list"

\* a slip: a missing "value" read as a bound that fails
check_max_length_strict(value, params) ==
    IF ~IsStr(value) THEN Ok(TRUE)
    ELSE LET b == ParamBound(params)
         IN  IF b.k = "missing" THEN Ok(FALSE)
             ELSE BoundAnswer(b, b.k = "ok" /\ LenLe(Len(value.s), b.v))

check_max_length(value, params) ==
    IF ~IsStr(value) THEN Ok(TRUE)
    ELSE LET b == ParamBound(params)
         IN  BoundAnswer(b, b.k = "ok" /\ LenLe(Len(value.s), b.v))

check_min_length(value, params) ==
    IF ~IsStr(value) THEN Ok(TRUE)
    ELSE LET b == ParamBound(params)
         IN  BoundAnswer(b, b.k = "ok" /\ LenGe(Len(value.s), b.v))

\* a slip: len() taken of whatever the value is, the isinstance test left out
check_max_count_any_shape(value, params) ==
    LET b == ParamBound(params)
        n == IF IsList(value) THEN Len(value.l) ELSE Len(value.s)
    IN  BoundAnswer(b, b.k = "ok" /\ LenLe(n, b.v))

check_max_count(value, params) ==
    IF ~IsList(value) THEN Ok(TRUE)
    ELSE LET b == ParamBound(params)
         IN  BoundAnswer(b, b.k = "ok" /\ LenLe(Len(value.l), b.v))

check_min_count(value, params) ==
    IF ~IsList(value) THEN Ok(TRUE)
    ELSE LET b == ParamBound(params)
         IN  BoundAnswer(b, b.k = "ok" /\ LenGe(Len(value.l), b.v))

\* characters a pattern may hold and stand for themselves
IsLiteralChar(c) == IsAlphaChar(c) \/ IsDigitChar(c) \/ c = " "

\* _rx(pattern, flags): re.compile of a literal pattern, or of the unbalanced "("
\* which re rejects; the compiled pattern is [lit, icase]
_rx(pattern, flags) ==
    CASE flags.t # "str" -> Raise("AttributeError")
      [] flags.t = "str" /\ pattern.t # "str" -> Raise("TypeError")
      [] flags.t = "str" /\ pattern.t = "str" /\ pattern.s = << "(" >> -> Raise("re.error")
      [] flags.t = "str" /\ pattern.t = "str"
            /\ (\A i \in DOMAIN pattern.s : IsLiteralChar(pattern.s[i])) ->
            Ok([lit |-> pattern.s, icase |-> Contains(Lower(flags.s), << "i" >>)])

\* r.search(text) is not None, for a compiled literal pattern
Search(r, text) ==
    IF r.icase THEN Contains(Lower(text), Lower(r.lit)) ELSE Contains(text, r.lit)

\* pattern = params.get("pattern"); if not pattern: return True
MissingPatternPasses(params) == ~Truthy(Get(params, "pattern"))

\* what the three regex checks do with params after their shape test:
\* params.get("pattern") (an AttributeError on None), then _rx
CompiledPattern(params) ==
    IF params.t # "dict" THEN Raise("AttributeError")
    ELSE IF MissingPatternPasses(params) THEN [k |-> "missing"]
    ELSE _rx(params.d.pattern, GetOr(params, "flags", VStr(<< >>)))

\* the answer of a regex check: pass without a pattern, else whether the
\* search found what the check wants
RegexAnswer(r, holds) ==
    CASE r.k = "raise"   -> r
      [] r.k = "missing" -> Ok(TRUE)
      [] r.k = "ok"      -> Ok(holds)

check_forbidden_regex(value, params) ==
    IF ~IsStr(value) THEN Ok(TRUE)
    ELSE LET r == CompiledPattern(params)
         IN  RegexAnswer(r, r.k = "ok" /\ ~Search(r.v, value.s))

check_required_regex(value, params) ==
    IF ~IsStr(value) THEN Ok(TRUE)
    ELSE LET r == CompiledPattern(params)
         IN  RegexAnswer(r, r.k = "ok" /\ Search(r.v, value.s))

\* all(r.search((v or "")) is None for v in value), items being strings or None
check_forbidden_regex_each(value, params) ==
    IF ~IsList(value) THEN Ok(TRUE)
    ELSE LET r == CompiledPattern(params)
         IN  RegexAnswer(r, r.k = "ok" /\ \A i \in DOMAIN value.l :
                                  ~Search(r.v, PyOr(value.l[i], VStr(<< >>)).s))

DefaultPunctuation == VStr(<< ".", ";", ":", "!" >>)

\* (not v) or (str(v).rstrip() and str(v).rstrip()[-1] not in bad)
EndsClean(v, bad) ==
    \/ ~Truthy(v)
    \/ LET t == RStripChars(v.s, SpaceChars) IN t # << >> /\ t[Len(t)] \notin bad

check_no_ending_punct(value, params) ==
    IF ~IsList(value) THEN Ok(TRUE)
    ELSE IF params.t # "dict" THEN Raise("AttributeError")
    ELSE LET p == GetOr(params, "punctuation", DefaultPunctuation)
         IN  IF p.t # "str" THEN Raise("TypeError")
             ELSE Ok(\A i \in DOMAIN value.l : EndsClean(value.l[i], Range(p.s)))

\* re.search(r"(https?://|www\.|\S+@\S+)", value, re.I)
HasUrlOrEmail(s) ==
    \/ Contains(Lower(s), << "h", "t", "t", "p", ":", "/", "/" >>)
    \/ Contains(Lower(s), << "h", "t", "t", "p", "s", ":", "/", "/" >>)
    \/ Contains(Lower(s), << "w", "w", "w", "." >>)
    \/ \E i \in 2..(Len(s) - 1) :
          s[i] = "@" /\ s[i - 1] \notin SpaceChars /\ s[i + 1] \notin SpaceChars

check_no_urls_emails(value, params) ==
    IF ~IsStr(value) THEN Ok(TRUE) ELSE Ok(~HasUrlOrEmail(value.s))

BulletMarkers == { "-", BulletChar, " ", "\t" }

\* a slip: the first character after the markers is tested, alphabetic or not
BulletStartsUpper(raw) ==
    \/ ~Truthy(raw)
    \/ LET text == LStripChars(raw.s, BulletMarkers)
       IN  text = << >> \/ IsUpperChar(text[1])

\* one bullet of check_bullets_capitalized: its first alphabetic character, if
\* any, after lstrip("-• \t"), is upper case
BulletCapitalized(raw) ==
    \/ ~Truthy(raw)
    \/ LET text   == LStripChars(raw.s, BulletMarkers)
           alphas == { i \in DOMAIN text : IsAlphaChar(text[i]) }
       IN  alphas = {} \/ IsUpperChar(text[CHOOSE i \in alphas : \A j \in alphas : i <= j])

check_bullets_capitalized(value, params) ==
    IF ~IsList(value) THEN Ok(TRUE)
    ELSE Ok(\A i \in DOMAIN value.l : BulletCapitalized(value.l[i]))

_NUMBER_WORDS ==
    { << "z", "e", "r", "o" >>, << "o", "n", "e" >>, << "t", "w", "o" >>, << "t", "h", "r", "e", "e" >>, << "f", "o", "u", "r" >>, << "f", "i", "v", "e" >>, << "s", "i", "x" >>, << "s", "e", "v", "e", "n" >>,
      << "e", "i", "g", "h", "t" >>, << "n", "i", "n", "e" >>, << "t", "e", "n" >>, << "e", "l", "e", "v", "e", "n" >>, << "t", "w", "e", "l", "v", "e" >> }

\* any(f" {word} " in f" {text} " for word in _NUMBER_WORDS), text lower-cased
SpellsNumber(raw) ==
    /\ Truthy(raw)
    /\ \E word \in _NUMBER_WORDS :
          Contains(<< " " >> \o Lower(raw.s) \o << " " >>, << " " >> \o word \o << " " >>)

check_bullets_numbers_as_numerals(value, params) ==
    IF ~IsList(value) THEN Ok(TRUE)
    ELSE Ok(~ \E i \in DOMAIN value.l : SpellsNumber(value.l[i]))

check_image_constraint(value, params) == Ok(TRUE)

\* the keys of CHECKS, in its order
CheckTypes ==
    << << "m", "a", "x", "_", "l", "e", "n", "g", "t", "h" >>, << "m", "i", "n", "_", "l", "e", "n", "g", "t", "h" >>, << "m", "a", "x", "_", "c", "o", "u", "n", "t" >>, << "m", "i", "n", "_", "c", "o", "u", "n", "t" >>, << "f", "o", "r", "b", "i", "d", "d", "e", "n", "_", "r", "e", "g", "e", "x" >>,
       << "r", "e", "q", "u", "i", "r", "e", "d", "_", "r", "e", "g", "e", "x" >>, << "f", "o", "r", "b", "i", "d", "d", "e", "n", "_", "r", "e", "g", "e", "x", "_", "e", "a", "c", "h" >>, << "n", "o", "_", "e", "n", "d", "i", "n", "g", "_", "p", "u", "n", "c", "t" >>, << "n", "o", "_", "u", "r", "l", "s", "_", "e", "m", "a", "i", "l", "s" >>,
       << "b", "u", "l", "l", "e", "t", "s", "_", "c", "a", "p", "i", "t", "a", "l", "i", "z", "e", "d" >>, << "b", "u", "l", "l", "e", "t", "s", "_", "n", "u", "m", "b", "e", "r", "s", "_", "a", "s", "_", "n", "u", "m", "e", "r", "a", "l", "s" >>, << "i", "m", "a", "g", "e", "_", "c", "o", "n", "s", "t", "r", "a", "i", "n", "t" >> >>

\* CHECKS.get(rule.type) is not None
HasCheck(type) == type.t = "str" /\ type.s \in Range(CheckTypes)

\* CHECKS[type](value, params)
RunCheck(type, value, params) ==
    CASE type.s = << "m", "a", "x", "_", "l", "e", "n", "g", "t", "h" >>                  -> check_max_length(value, params)
      [] type.s = << "m", "i", "n", "_", "l", "e", "n", "g", "t", "h" >>                  -> check_min_length(value, params)
      [] type.s = << "m", "a", "x", "_", "c", "o", "u", "n", "t" >>                   -> check_max_count(value, params)
      [] type.s = << "m", "i", "n", "_", "c", "o", "u", "n", "t" >>                   -> check_min_count(value, params)
      [] type.s = << "f", "o", "r", "b", "i", "d", "d", "e", "n", "_", "r", "e", "g", "e", "x" >>             -> check_forbidden_regex(value, params)
      [] type.s = << "r", "e", "q", "u", "i", "r", "e", "d", "_", "r", "e", "g", "e", "x" >>              -> check_required_regex(value, params)
      [] type.s = << "f", "o", "r", "b", "i", "d", "d", "e", "n", "_", "r", "e", "g", "e", "x", "_", "e", "a", "c", "h" >>        -> check_forbidden_regex_each(value, params)
      [] type.s = << "n", "o", "_", "e", "n", "d", "i", "n", "g", "_", "p", "u", "n", "c", "t" >>             -> check_no_ending_punct(value, params)
      [] type.s = << "n", "o", "_", "u", "r", "l", "s", "_", "e", "m", "a", "i", "l", "s" >>              -> check_no_urls_emails(value, params)
      [] type.s = << "b", "u", "l", "l", "e", "t", "s", "_", "c", "a", "p", "i", "t", "a", "l", "i", "z", "e", "d" >>         -> check_bullets_capitalized(value, params)
      [] type.s = << "b", "u", "l", "l", "e", "t", "s", "_", "n", "u", "m", "b", "e", "r", "s", "_", "a", "s", "_", "n", "u", "m", "e", "r", "a", "l", "s" >> ->
            check_bullets_numbers_as_numerals(value, params)
      [] type.s = << "i", "m", "a", "g", "e", "_", "c", "o", "n", "s", "t", "r", "a", "i", "n", "t" >>            -> check_image_constraint(value, params)

\* ------------------------------------------------------------------------
\* Rule evaluator (rules_engine.py)
\* ------------------------------------------------------------------------

\* the keys of SECTION_GETTERS
Sections == { << "t", "i", "t", "l", "e" >>, << "b", "u", "l", "l", "e", "t", "s" >>, << "d", "e", "s", "c", "r", "i", "p", "t", "i", "o", "n" >>, << "i", "m", "a", "g", "e", "s" >> }

\* SECTION_GETTERS.get(rule.section) is not None
HasGetter(section) == section.t = "str" /\ section.s \in Sections

\* a slip: the field as it is, None included
SectionField(section, sku) ==
    CASE section.s = << "t", "i", "t", "l", "e" >>       -> sku.title
      [] section.s = << "b", "u", "l", "l", "e", "t", "s" >>     -> sku.bullets
      [] section.s = << "d", "e", "s", "c", "r", "i", "p", "t", "i", "o", "n" >> -> sku.description
      [] section.s = << "i", "m", "a", "g", "e", "s" >>      -> sku.image_urls

\* SECTION_GETTERS[section](sku): the field, or an empty value of its shape
SECTION_GETTERS(section, sku) ==
    CASE section.s = << "t", "i", "t", "l", "e" >>       -> PyOr(sku.title, VStr(<< >>))
      [] section.s = << "b", "u", "l", "l", "e", "t", "s" >>     -> PyOr(sku.bullets, VList(<< >>))
      [] section.s = << "d", "e", "s", "c", "r", "i", "p", "t", "i", "o", "n" >> -> PyOr(sku.description, VStr(<< >>))
      [] section.s = << "i", "m", "a", "g", "e", "s" >>      -> PyOr(sku.image_urls, VList(<< >>))

\* a Rule record (the dataclass): every field is set
VRule(d) == [t |-> "rule", d |-> d]

DefaultSeverity == VStr(<< "w", "a", "r", "n", "i", "n", "g" >>)


\* a slip: a mapping without severity read as "info"
SeverityOfInfo(r) == GetOr(r, "severity", VStr(<< "i", "n", "f", "o" >>))

\* severity=r.get("severity", "warning")
SeverityOf(r) == GetOr(r, "severity", DefaultSeverity)

\* _as_rule(r): a Rule is returned as it is, a mapping is read key by key
_as_rule(r) ==
    CASE r.t = "rule" -> Ok(r)
      [] r.t = "dict" ->
            IF r.d.id = VAbsent \/ r.d.section = VAbsent \/ r.d.type = VAbsent
            THEN Raise("KeyError")
            ELSE Ok(VRule([id        |-> r.d.id,
                           section   |-> r.d.section,
                           type      |-> r.d.type,
                           params    |-> GetOr(r, "params", EmptyParams),
                           severity  |-> SeverityOf(r),
                           message   |-> GetOr(r, "message", VStr(<< >>)),
                           citation  |-> Get(r, "citation"),
                           policy_id |-> Get(r, "policy_id"),
                           scope     |-> Get(r, "scope")]))
      [] r.t \in {"str", "none", "list", "int"} -> Raise("TypeError")


\* a slip: the bare id whatever the policy
NamespacedIdBare(rule) == rule.id

\* f"{rule.policy_id}:{rule.id}" if rule.policy_id else rule.id
NamespacedId(rule) ==
    IF Truthy(rule.policy_id)
    THEN VStr(rule.policy_id.s \o << ":" >> \o rule.id.s)
    ELSE rule.id

\* message = rule.message or rule.id, prefixed when rule.policy_id is set
FindingMessage(rule) ==
    LET message == PyOr(rule.message, rule.id)
    IN  IF Truthy(rule.policy_id)
        THEN VStr(rule.policy_id.s \o << ":" >> \o rule.id.s \o << " ", EnDashChar, " " >> \o message.s)
        ELSE message

\* setattr(finding, "severity", getattr(rule, "severity", "warning"))
FindingSeverity(rule) == rule.severity

Finding(rule, passed) ==
    [section  |-> rule.section,
     rule_id  |-> NamespacedId(rule),
     passed   |-> passed,
     message  |-> FindingMessage(rule),
     citation |-> rule.citation,
     severity |-> FindingSeverity(rule)]

\* whether the loop body goes on to evaluate the rule (neither `continue` taken)
Evaluated(rule) == HasGetter(rule.section) /\ HasCheck(rule.type)

\* the body of the loop of validate_with_rules for one entry of rules: the
\* findings it appends (none or one), or the exception it raises
validate_one(sku, raw) ==
    LET ar == _as_rule(raw)
    IN  IF ar.k = "raise" THEN ar
        ELSE LET rule == ar.v.d
             IN  IF ~Evaluated(rule) THEN Ok(<< >>)
                 ELSE LET res == RunCheck(rule.type, SECTION_GETTERS(rule.section, sku),
                                          rule.params)
                      IN  IF res.k = "raise" THEN res
                          ELSE Ok(<< Finding(rule, res.v) >>)

\* ------------------------------------------------------------------------
\* Inputs: rules, packs, items, requests
\* ------------------------------------------------------------------------

\* longest pack list, longest rule list handed straight to the evaluator,
\* longest category list of the category-match specification
MaxPacks == 2

MaxRules == 2

MaxCats == 2

SeqsUpTo(S, n) == UNION { [1..m -> S] : m \in 0..n }

\* a rule as a mapping read from a policy file; VAbsent marks a missing key
MkRule(id, section, type, params, severity, message, policy_id, scope) ==
    VDict([id |-> id, section |-> section, type |-> type, params |-> params,
           severity |-> severity, message |-> message, citation |-> VAbsent,
           policy_id |-> policy_id, scope |-> scope])

Params(value, pattern, flags, punctuation) ==
    VDict([value |-> value, pattern |-> pattern, flags |-> flags,
           punctuation |-> punctuation])

ValueParam(v) == Params(v, VAbsent, VAbsent, VAbsent)

PatternParam(p, f) == Params(VAbsent, p, f, VAbsent)

Scope(market, cats) == VDict([market |-> market, categories |-> cats])

Meta(policy_id) == VDict([policy_id |-> policy_id, market |-> VAbsent, categories |-> VAbsent])

Pack(meta, rs) == VDict([meta |-> meta, rules |-> VList(rs)])

StrList(ss) == VList([ i \in DOMAIN ss |-> VStr(ss[i]) ])

PackA ==
    Pack(Meta(VStr(<< "p", "a" >>)),
         << MkRule(VStr(<< "T", "1" >>), VStr(<< "t", "i", "t", "l", "e" >>), VStr(<< "m", "a", "x", "_", "l", "e", "n", "g", "t", "h" >>), ValueParam(VInt(3)),
                   VStr(<< "e", "r", "r", "o", "r" >>), VStr(<< "l", "o", "n", "g" >>), VAbsent, VAbsent),
            MkRule(VStr(<< "B", "1" >>), VStr(<< "b", "u", "l", "l", "e", "t", "s" >>), VStr(<< "n", "o", "_", "e", "n", "d", "i", "n", "g", "_", "p", "u", "n", "c", "t" >>), VAbsent,
                   VAbsent, VStr(<< >>), VAbsent,
                   Scope(StrList(<< << "A", "E" >>, << "S", "A" >> >>), StrList(<< << "P", "e", "t", "S", "u", "p", "p", "l", "i", "e", "s" >> >>))),
            MkRule(VStr(<< "X", "1" >>), VStr(<< "p", "r", "i", "c", "e" >>), VStr(<< "m", "a", "x", "_", "l", "e", "n", "g", "t", "h" >>), ValueParam(VInt(3)),
                   VStr(<< "i", "n", "f", "o" >>), VAbsent, VAbsent,
                   Scope(StrList(<< << "a", "e" >> >>), VAbsent)) >>)

PackB ==
    Pack(Meta(VAbsent),
         << MkRule(VStr(<< "T", "1" >>), VStr(<< "t", "i", "t", "l", "e" >>), VStr(<< "r", "e", "q", "u", "i", "r", "e", "d", "_", "r", "e", "g", "e", "x" >>),
                   PatternParam(VStr(<< "p", "e", "t" >>), VStr(<< "I" >>)), VStr(<< "c", "r", "i", "t", "i", "c", "a", "l" >>), VAbsent,
                   VStr(<< "o", "l", "d" >>), Scope(VList(<< >>), VList(<< >>))),
            MkRule(VStr(<< "D", "1" >>), VStr(<< "d", "e", "s", "c", "r", "i", "p", "t", "i", "o", "n" >>), VStr(<< "n", "o", "_", "s", "u", "c", "h" >>), VAbsent,
                   VStr(<< "i", "n", "f", "o" >>), VStr(<< "m" >>), VAbsent, VNone) >>)

PackC ==
    Pack(Meta(VNone),
         << MkRule(VStr(<< "I", "1" >>), VStr(<< "i", "m", "a", "g", "e", "s" >>), VStr(<< "m", "i", "n", "_", "c", "o", "u", "n", "t" >>), ValueParam(VStr(<< "1" >>)),
                   VStr(<< "w", "a", "r", "n", "i", "n", "g" >>), VStr(<< "m" >>), VAbsent,
                   Scope(StrList(<< << "A", "E", "X" >> >>), StrList(<< << "D", "o", "g" >>, <<  >> >>))),
            MkRule(VStr(<< "D", "2" >>), VStr(<< "d", "e", "s", "c", "r", "i", "p", "t", "i", "o", "n" >>), VStr(<< "n", "o", "_", "u", "r", "l", "s", "_", "e", "m", "a", "i", "l", "s" >>), VNone,
                   VNone, VStr(<< >>), VAbsent,
                   Scope(VAbsent, StrList(<< << " ", "P", "e", "t", " " >> >>))) >>)

PackD ==
    Pack(Meta(VStr(<< "p", "d" >>)),
         << MkRule(VAbsent, VStr(<< "t", "i", "t", "l", "e" >>), VStr(<< "m", "i", "n", "_", "l", "e", "n", "g", "t", "h" >>), ValueParam(VInt(1)),
                   VAbsent, VAbsent, VAbsent, Scope(StrList(<< << "U", "S" >> >>), VAbsent)),
            MkRule(VStr(<< "T", "2" >>), VStr(<< "t", "i", "t", "l", "e" >>), VStr(<< "m", "a", "x", "_", "l", "e", "n", "g", "t", "h" >>), VNone,
                   VStr(<< "e", "r", "r", "o", "r" >>), VAbsent, VAbsent,
                   Scope(StrList(<< << "S", "A" >>, << "a", "e" >> >>), StrList(<< << "c", "a", "t" >> >>))) >>)

PackE ==
    Pack(VAbsent,
         << MkRule(VStr(<< "B", "2" >>), VStr(<< "b", "u", "l", "l", "e", "t", "s" >>), VStr(<< "m", "a", "x", "_", "c", "o", "u", "n", "t" >>), ValueParam(VInt(1)),
                   VAbsent, VStr(<< "m" >>), VAbsent, Scope(StrList(<< << "A", "E" >> >>), VNone)),
            VStr(<< "o", "o", "p", "s" >>) >>)

PackPool == { PackA, PackB, PackC, PackD, PackE }

Markets == { VStr(<< "A", "E" >>), VStr(<< "a", "e" >>), VStr(<< "A" >>), VStr(<< "U", "S" >>) }

CategoryLists ==
    { VList(<< >>), StrList(<< << "P", "e", "t" >> >>), StrList(<< <<  >> >>), StrList(<< << "C", "a", "t" >> >>),
      StrList(<< << " " >>, << "D", "O", "G" >> >>) }

Sku(title, bullets, description, image_urls) ==
    [title |-> title, bullets |-> bullets, description |-> description,
     image_urls |-> image_urls]

Items ==
    { Sku(VStr(<< "A", "b" >>), StrList(<< << "G", "o", "o", "d", "." >>, << "t", "w", "o", " ", "t", "o", "y", "s" >> >>), VStr(<< "s", "e", "e", " ", "w", "w", "w", ".", "x" >>),
          StrList(<< << "u" >> >>)),
      Sku(VNone, VNone, VNone, VNone),
      Sku(VStr(<< >>), VList(<< >>), VStr(<< "a", "@", "b" >>), VList(<< >>)),
      Sku(VStr(<< "P", "e", "t", " ", "B", "o", "w", "l" >>), VList(<< VStr(<< "-", " ", "o", "k" >>), VStr(<< " ", " " >>), VNone >>), VStr(<< "A", "b" >>),
          StrList(<< << "u" >>, << "v" >> >>)) }

\* rules a caller hands to validate_with_rules itself: mappings and Rule records
DirectPool ==
    { VRule([id |-> VStr(<< "T", "1" >>), section |-> VStr(<< "t", "i", "t", "l", "e" >>), type |-> VStr(<< "m", "i", "n", "_", "l", "e", "n", "g", "t", "h" >>),
             params |-> ValueParam(VInt(1)), severity |-> VStr(<< "w", "a", "r", "n", "i", "n", "g" >>),
             message |-> VStr(<< "m" >>), citation |-> VNone, policy_id |-> VNone,
             scope |-> VNone]),
      MkRule(VStr(<< "B", "1" >>), VStr(<< "b", "u", "l", "l", "e", "t", "s" >>), VStr(<< "b", "u", "l", "l", "e", "t", "s", "_", "c", "a", "p", "i", "t", "a", "l", "i", "z", "e", "d" >>), VAbsent,
             VStr(<< "i", "n", "f", "o" >>), VStr(<< >>), VStr(<< "p", "a" >>), VAbsent),
      MkRule(VStr(<< "D", "1" >>), VStr(<< "d", "e", "s", "c", "r", "i", "p", "t", "i", "o", "n" >>), VStr(<< "f", "o", "r", "b", "i", "d", "d", "e", "n", "_", "r", "e", "g", "e", "x" >>),
             PatternParam(VStr(<< "a", "b" >>), VAbsent), VAbsent, VStr(<< "m" >>), VStr(<< >>), VAbsent),
      MkRule(VStr(<< "B", "2" >>), VStr(<< "b", "u", "l", "l", "e", "t", "s" >>), VStr(<< "m", "a", "x", "_", "c", "o", "u", "n", "t" >>), ValueParam(VInt(1)),
             VStr(<< "e", "r", "r", "o", "r" >>), VAbsent, VAbsent, VAbsent),
      MkRule(VStr(<< "I", "1" >>), VStr(<< "i", "m", "a", "g", "e", "s" >>), VStr(<< "i", "m", "a", "g", "e", "_", "c", "o", "n", "s", "t", "r", "a", "i", "n", "t" >>), VAbsent,
             VStr(<< "c", "r", "i", "t", "i", "c", "a", "l" >>), VStr(<< "m" >>), VStr(<< "p", "b" >>), VAbsent),
      MkRule(VStr(<< "B", "3" >>), VStr(<< "b", "u", "l", "l", "e", "t", "s" >>), VStr(<< "b", "u", "l", "l", "e", "t", "s", "_", "n", "u", "m", "b", "e", "r", "s", "_", "a", "s", "_", "n", "u", "m", "e", "r", "a", "l", "s" >>), VAbsent,
             VNone, VAbsent, VStr(<< "p", "b" >>), VAbsent),
      MkRule(VStr(<< "X", "1" >>), VStr(<< "p", "r", "i", "c", "e" >>), VStr(<< "m", "a", "x", "_", "l", "e", "n", "g", "t", "h" >>), ValueParam(VInt(3)),
             VAbsent, VAbsent, VAbsent, VAbsent),
      MkRule(VStr(<< "X", "2" >>), VStr(<< "t", "i", "t", "l", "e" >>), VStr(<< "n", "o", "_", "s", "u", "c", "h" >>), VAbsent,
             VAbsent, VAbsent, VStr(<< "p", "a" >>), VAbsent),
      MkRule(VStr(<< "T", "3" >>), VAbsent, VStr(<< "m", "a", "x", "_", "l", "e", "n", "g", "t", "h" >>), ValueParam(VInt(3)),
             VAbsent, VAbsent, VAbsent, VAbsent),
      MkRule(VStr(<< "T", "4" >>), VStr(<< "t", "i", "t", "l", "e" >>), VStr(<< "m", "a", "x", "_", "l", "e", "n", "g", "t", "h" >>), ValueParam(VStr(<< "a", "b", "c" >>)),
             VAbsent, VAbsent, VAbsent, VAbsent),
      VNone }

\* one rule per check type, section and params: the check library's inputs
CheckSections == Sections \cup { << "p", "r", "i", "c", "e" >> }

ParamsPool ==
    { VAbsent, VNone, EmptyParams,
      ValueParam(VInt(0)), ValueParam(VInt(1)), ValueParam(VStr(<< "a", "b", "c" >>)),
      PatternParam(VStr(<< "a" >>), VAbsent), PatternParam(VStr(<< "O" >>), VStr(<< "i" >>)),
      PatternParam(VStr(<< "(" >>), VAbsent), PatternParam(VStr(<< >>), VNone),
      Params(VAbsent, VAbsent, VStr(<< "i" >>), VStr(<< "!" >>)),
      Params(VAbsent, VAbsent, VAbsent, VNone) }

CheckRules ==
    { MkRule(VStr(<< "R" >>), VStr(s), VStr(CheckTypes[i]), p, VAbsent, VAbsent, VAbsent, VAbsent) :
        s \in CheckSections, i \in DOMAIN CheckTypes, p \in ParamsPool }

\* category strings of the category-match specification
CatStrings == { VStr(<<  >>), VStr(<< " " >>), VStr(<< "P", "e", "t" >>), VStr(<< "p", "e", "t", " " >>), VStr(<< "P", "e", "t", "S", "u", "p", "p", "l", "i", "e", "s" >>),
                VStr(<< "D", "o", "g" >>) }

CatLists == { VList(l) : l \in SeqsUpTo(CatStrings, MaxCats) }

\* ------------------------------------------------------------------------
\* State
\* ------------------------------------------------------------------------

VARIABLES
    packs,        \* the pack list handed to select_rules
    market,       \* the requested market
    categories,   \* the requested categories
    sel,          \* what select_rules returned or raised; NotCalled before
    sku,          \* the item handed to validate_with_rules
    rules,        \* the rule list handed to validate_with_rules
    idx,          \* validate_with_rules: position of the loop in rules
    findings,     \* validate_with_rules: its local list of findings
    pc,           \* "start", "selected", "direct", "validating", "done", "raised", "cat"
    exc,          \* the exception that ended the run, or "none"
    rule_cats,    \* _cat_match: its first argument
    want_cats,    \* _cat_match: its second argument
    cat_fwd,      \* "unset", or the answer of _cat_match(rule_cats, want_cats)
    cat_rev,      \* "unset", or the answer of _cat_match(want_cats, rule_cats)
    heap,         \* the rule objects, by address: the packs' rules, then the copies
    sel_i,        \* select_rules: position of its loops in the packs' rules
    sel_out,      \* select_rules: its local list sel, as addresses
    returned,     \* the lists the calls of select_rules have returned so far
    root,         \* load_all_rules: the entries of the storage root, as iterated
    dir_i,        \* load_all_rules: position of its loop in root
    c_sku,        \* per invocation of validate_with_rules: its argument sku
    c_rules,      \* per invocation: its argument rules
    c_pc,         \* per invocation: "idle", "running", "done" or "raised"
    c_idx,        \* per invocation: position of its loop in its rules
    c_list,       \* per invocation: address of the list its name findings is bound to
    c_out,        \* per invocation: what it returned or raised; NotCalled before
    lists,        \* the findings lists, by address
    recs_raw,     \* run_compare: what the suggestion generator returned
    recs_norm,    \* run_compare: its local list recs_norm
    result,       \* run_compare: the mapping it returned; NotCalled before
    state,        \* the chat session: results (None or a result) and approved
    blists,       \* the chat session: the bullet lists of the result, by address
    log,          \* the chat session: the commands read so far
    comp_find,    \* the comparison step: the competitor's findings
    table         \* the comparison step: the policy rows built so far

vars == << packs, market, categories, sel, sku, rules, idx, findings, pc, exc,
           rule_cats, want_cats, cat_fwd, cat_rev, heap, sel_i, sel_out, returned,
           root, dir_i, c_sku, c_rules, c_pc, c_idx, c_list, c_out, lists,
           recs_raw, recs_norm, result, state, blists, log, comp_find, table >>

engineVars == << packs, market, categories, sel, sku, rules, idx, findings, pc, exc >>

catVars == << rule_cats, want_cats, cat_fwd, cat_rev >>

heapVars == << heap, sel_i, sel_out, returned >>

loadVars == << root, dir_i >>

\* what the pipeline, the check library and the category predicate leave alone
callVars == << c_sku, c_rules, c_pc, c_idx, c_list, c_out, lists >>

\* run_compare after the findings, the chat session and the comparison step
appVars == << recs_raw, recs_norm, result, state, blists, log, comp_find, table >>

otherVars == << heapVars, loadVars, callVars, appVars >>

NotCalled == [k |-> "none"]

NoCats ==
    /\ rule_cats = VNone
    /\ want_cats = VNone
    /\ cat_fwd = "unset"
    /\ cat_rev = "unset"

NoHeap ==
    /\ heap = << >>
    /\ sel_i = 1
    /\ sel_out = << >>
    /\ returned = << >>

NoLoad ==
    /\ root = << >>
    /\ dir_i = 1

NoCalls ==
    /\ c_sku = << >>
    /\ c_rules = << >>
    /\ c_pc = << >>
    /\ c_idx = << >>
    /\ c_list = << >>
    /\ c_out = << >>
    /\ lists = << >>

NoApp ==
    /\ recs_raw = << >>
    /\ recs_norm = << >>
    /\ result = NotCalled
    /\ state = [results |-> VNone, approved |-> FALSE]
    /\ blists = << >>
    /\ log = << >>
    /\ comp_find = << >>
    /\ table = << >>

NoOther == NoHeap /\ NoLoad /\ NoCalls /\ NoApp

\* the pipeline's entry: packs loaded, a market and categories requested
InitRegistry ==
    /\ packs \in SeqsUpTo(PackPool, MaxPacks)
    /\ market \in Markets
    /\ categories \in CategoryLists
    /\ sel = NotCalled
    /\ sku \in Items
    /\ rules = << >>
    /\ idx = 1
    /\ findings = << >>
    /\ pc = "start"
    /\ exc = "none"
    /\ NoCats
    /\ NoOther

NoRegistry ==
    /\ packs = << >>
    /\ market = VStr(<< >>)
    /\ categories = VList(<< >>)
    /\ sel = NotCalled

\* a caller that hands its own rule list to validate_with_rules
InitDirect ==
    /\ NoRegistry
    /\ sku \in Items
    /\ rules \in SeqsUpTo(DirectPool, MaxRules)
    /\ idx = 1
    /\ findings = << >>
    /\ pc = "direct"
    /\ exc = "none"
    /\ NoCats
    /\ NoOther

\* one rule of the check library's input space against one item
InitCheck ==
    /\ NoRegistry
    /\ sku \in Items
    /\ rules \in { << r >> : r \in CheckRules }
    /\ idx = 1
    /\ findings = << >>
    /\ pc = "direct"
    /\ exc = "none"
    /\ NoCats
    /\ NoOther

\* one call of _cat_match on two category lists
InitCat ==
    /\ NoRegistry
    /\ sku = Sku(VNone, VNone, VNone, VNone)
    /\ rules = << >>
    /\ idx = 1
    /\ findings = << >>
    /\ pc = "cat"
    /\ exc = "none"
    /\ rule_cats \in CatLists
    /\ want_cats \in CatLists
    /\ cat_fwd = "unset"
    /\ cat_rev = "unset"
    /\ NoOther

Init == InitRegistry \/ InitDirect

\* ------------------------------------------------------------------------
\* Operations
\* ------------------------------------------------------------------------

\* sel = select_rules(packs, market, categories)
SelectRules ==
    /\ pc = "start"
    /\ sel' = select_rules(packs, market, categories)
    /\ pc' = IF sel'.k = "raise" THEN "raised" ELSE "selected"
    /\ exc' = IF sel'.k = "raise" THEN sel'.exc ELSE exc
    /\ UNCHANGED << packs, market, categories, sku, rules, idx, findings >>
    /\ UNCHANGED catVars
    /\ UNCHANGED otherVars

\* validate_with_rules(sku, rules) is entered, on the selected rules or on the
\* caller's own list: findings = []
CallValidate ==
    /\ pc \in {"selected", "direct"}
    /\ rules' = IF pc = "selected" THEN sel.v ELSE rules
    /\ pc' = "validating"
    /\ idx' = 1
    /\ findings' = << >>
    /\ UNCHANGED << packs, market, categories, sel, sku, exc >>
    /\ UNCHANGED catVars
    /\ UNCHANGED otherVars


\* a slip: findings.insert(0, finding)
PrependFindings(fs, new) == new \o fs

\* findings.append(finding)
AppendFindings(fs, new) == fs \o new

\* one turn of `for raw in rules`
ValidateStep ==
    /\ pc = "validating"
    /\ idx <= Len(rules)
    /\ LET out == validate_one(sku, rules[idx])
       IN  IF out.k = "raise"
           THEN /\ pc' = "raised"
                /\ exc' = out.exc
                /\ UNCHANGED << idx, findings >>
           ELSE /\ findings' = AppendFindings(findings, out.v)
                /\ idx' = idx + 1
                /\ UNCHANGED << pc, exc >>
    /\ UNCHANGED << packs, market, categories, sel, sku, rules >>
    /\ UNCHANGED catVars
    /\ UNCHANGED otherVars

\* return findings
ValidateReturn ==
    /\ pc = "validating"
    /\ idx > Len(rules)
    /\ pc' = "done"
    /\ UNCHANGED << packs, market, categories, sel, sku, rules, idx, findings, exc >>
    /\ UNCHANGED catVars
    /\ UNCHANGED otherVars

BoolName(b) == IF b THEN "match" ELSE "nomatch"

\* _cat_match(rule_cats, want_cats)
CatMatchCall ==
    /\ pc = "cat"
    /\ cat_fwd = "unset"
    /\ cat_fwd' = BoolName(_cat_match(rule_cats, want_cats))
    /\ UNCHANGED << rule_cats, want_cats, cat_rev >>
    /\ UNCHANGED engineVars
    /\ UNCHANGED otherVars

\* _cat_match(want_cats, rule_cats): the same two lists, exchanged
CatMatchSwapped ==
    /\ pc = "cat"
    /\ cat_rev = "unset"
    /\ cat_rev' = BoolName(_cat_match(want_cats, rule_cats))
    /\ UNCHANGED << rule_cats, want_cats, cat_fwd >>
    /\ UNCHANGED engineVars
    /\ UNCHANGED otherVars

NextValidate == CallValidate \/ ValidateStep \/ ValidateReturn

Next == SelectRules \/ NextValidate

NextCat == CatMatchCall \/ CatMatchSwapped

\* the pipeline: registry selection, then evaluation; or evaluation of a
\* caller's own rule list
Spec == Init /\ [][Next]_vars

\* the check library, one rule at a time
SpecCheck == InitCheck /\ [][NextValidate]_vars

\* the category predicate as a function of its two arguments
SpecCat == InitCat /\ [][NextCat]_vars

\* ------------------------------------------------------------------------
\* select_rules on rule objects: what it reads, copies and writes
\* ------------------------------------------------------------------------

\* most calls of select_rules on the same packs
MaxSelections == 2

\* the requests of the repeated selections
SelMarkets == { VStr(<< "A", "E" >>), VStr(<< "U", "S" >>) }

SelCategoryLists == { VList(<< >>), StrList(<< << "C", "a", "t" >> >>) }

\* p.get("rules", []) or []
RulesOf(p) == PyOr(GetOr(p, "rules", VList(<< >>)), VList(<< >>)).l

\* the rule objects of the packs, in the order the two loops visit them
RECURSIVE RuleObjects(_)
RuleObjects(ps) ==
    IF ps = << >> THEN << >> ELSE RulesOf(Head(ps)) \o RuleObjects(Tail(ps))

\* the pack whose inner loop visits the k-th rule object
RECURSIVE OwnerPack(_, _)
OwnerPack(ps, k) ==
    IF k <= Len(RulesOf(Head(ps))) THEN Head(ps)
    ELSE OwnerPack(Tail(ps), k - Len(RulesOf(Head(ps))))

\* a slip: the copy left out, r still names the pack's rule
DictAlias(a, fresh) == a

\* r = dict(r): r names a new object, at the next free address
DictCopy(a, fresh) == fresh

\* the objects with v stored at address a; a new cell when a is past the end
Store(h, a, v) == IF a > Len(h) THEN Append(h, v) ELSE [h EXCEPT ![a] = v]

\* packs loaded once, their rules held as objects; no selection made yet
InitSelect ==
    /\ packs \in SeqsUpTo(PackPool, MaxPacks)
    /\ market = VStr(<< >>)
    /\ categories = VList(<< >>)
    /\ sel = NotCalled
    /\ sku = Sku(VNone, VNone, VNone, VNone)
    /\ rules = << >>
    /\ idx = 1
    /\ findings = << >>
    /\ pc = "sel_idle"
    /\ exc = "none"
    /\ NoCats
    /\ heap = RuleObjects(packs)
    /\ sel_i = 1
    /\ sel_out = << >>
    /\ returned = << >>
    /\ NoLoad
    /\ NoCalls
    /\ NoApp

\* select_rules(packs, market, categories) is entered: sel = []
SelectEnter ==
    /\ pc = "sel_idle"
    /\ Len(returned) < MaxSelections
    /\ market' \in SelMarkets
    /\ categories' \in SelCategoryLists
    /\ sel_i' = 1
    /\ sel_out' = << >>
    /\ pc' = "sel_loop"
    /\ UNCHANGED << packs, sel, sku, rules, idx, findings, exc, heap, returned >>
    /\ UNCHANGED catVars
    /\ UNCHANGED << loadVars, callVars, appVars >>

\* one turn of `for r in p.get("rules", []) or []`, on the rule object at sel_i
SelectStep ==
    /\ pc = "sel_loop"
    /\ sel_i <= Len(RuleObjects(packs))
    /\ LET meta == PyOr(Get(OwnerPack(packs, sel_i), "meta"), EmptyMeta)
           one  == select_one(meta, heap[sel_i], market, categories)
           r    == DictCopy(sel_i, Len(heap) + 1)
           copied == Store(heap, r, heap[sel_i])
       IN  IF one.k = "raise"
           THEN /\ pc' = "raised"
                /\ exc' = one.exc
                /\ UNCHANGED << heap, sel_i, sel_out >>
           ELSE IF one.v = << >>
           THEN /\ sel_i' = sel_i + 1
                /\ UNCHANGED << heap, sel_out, pc, exc >>
           ELSE /\ heap' = Store(copied, r, Annotate(copied[r], meta))
                /\ sel_out' = Append(sel_out, r)
                /\ sel_i' = sel_i + 1
                /\ UNCHANGED << pc, exc >>
    /\ UNCHANGED << packs, market, categories, sel, sku, rules, idx, findings, returned >>
    /\ UNCHANGED catVars
    /\ UNCHANGED << loadVars, callVars, appVars >>

\* return sel
SelectReturn ==
    /\ pc = "sel_loop"
    /\ sel_i > Len(RuleObjects(packs))
    /\ returned' = Append(returned, [market |-> market, categories |-> categories,
                                     sel |-> sel_out])
    /\ pc' = "sel_idle"
    /\ UNCHANGED << packs, market, categories, sel, sku, rules, idx, findings, exc,
                    heap, sel_i, sel_out >>
    /\ UNCHANGED catVars
    /\ UNCHANGED << loadVars, callVars, appVars >>

NextSelect == SelectEnter \/ SelectStep \/ SelectReturn

\* repeated selections over one loaded pack list
SpecSelect == InitSelect /\ [][NextSelect]_vars

\* ------------------------------------------------------------------------
\* load_all_rules: the storage root, its definition files, the packs
\* ------------------------------------------------------------------------

\* most entries of the storage root
MaxDirs == 2

\* a definition file: not there, there but not parseable, or parsed to a value
Missing == [f |-> "missing"]

Unparseable == [f |-> "bad"]

Parsed(v) == [f |-> "doc", v |-> v]

\* a parsed definition that is a mapping; {} has neither key
Doc(meta, rs) == VDict([meta |-> meta, rules |-> rs])

EmptyDoc == Doc(VAbsent, VAbsent)

MetaFull(policy_id, mkt, cats) ==
    VDict([policy_id |-> policy_id, market |-> mkt, categories |-> cats])

\* yaml.safe_load(path.read_text(...)): the parsed value, or a parse error
yaml_safe_load(file) ==
    IF file.f = "bad" THEN Raise("YAMLError") ELSE Ok(file.v)

\* a slip: the try/except left out, a parse error leaves the loader
_safe_load_unguarded(file) ==
    IF file.f = "missing" THEN Ok(VNone)
    ELSE LET doc == yaml_safe_load(file)
         IN  IF doc.k = "raise" THEN doc ELSE Ok(PyOr(doc.v, EmptyDoc))

\* _safe_load(path): None without the file, {} on a parse error or a falsy
\* document
_safe_load(file) ==
    IF file.f = "missing" THEN Ok(VNone)
    ELSE LET doc == yaml_safe_load(file)
         IN  IF doc.k = "raise" THEN Ok(EmptyDoc) ELSE Ok(PyOr(doc.v, EmptyDoc))

\* a slip: the directory is read whether or not it holds a rules file
RulesPathAssumed(d) == TRUE

\* rules_path.exists()
RulesPathExists(d) == d.rules.f # "missing"

\* a slip: the rules definition's meta laid over the metadata definition's
MergeMetaUnderWins(under, over) ==
    VDict([ key \in DOMAIN under.d |->
              IF under.d[key] # VAbsent THEN under.d[key] ELSE over.d[key] ])

\* under | over on two mappings: over's value for a key it holds
MergeMeta(under, over) ==
    VDict([ key \in DOMAIN under.d |->
              IF over.d[key] # VAbsent THEN over.d[key] ELSE under.d[key] ])

\* a slip: only a missing policy_id falls back, an empty one is kept
NeedsFallbackMissingOnly(meta) == meta.d.policy_id = VAbsent

\* "policy_id" not in meta or not meta["policy_id"]
NeedsFallback(meta) == meta.d.policy_id = VAbsent \/ ~Truthy(meta.d.policy_id)

\* lines 37-40 for one directory: the fallback policy_id, then the pack
MakePack(meta, rs, name) ==
    IF meta.t # "dict" THEN Raise("TypeError")
    ELSE Ok(<< VDict([meta  |-> IF NeedsFallback(meta)
                                THEN [meta EXCEPT !.d.policy_id = VStr(name)]
                                ELSE meta,
                      rules |-> rs]) >>)

\* lines 22-40 on the two loaded definitions of directory `name`
NormalizePack(rules_doc, meta_doc, name) ==
    IF rules_doc.t = "list"
    THEN IF meta_doc.t # "dict" THEN Raise("AttributeError")
         ELSE MakePack(GetOr(meta_doc, "meta", EmptyMeta), rules_doc, name)
    ELSE IF rules_doc.t # "dict" \/ meta_doc.t # "dict" THEN Raise("AttributeError")
    ELSE LET under == PyOr(Get(rules_doc, "meta"), EmptyMeta)
             over  == PyOr(Get(meta_doc, "meta"), EmptyMeta)
         IN  IF under.t # "dict" \/ over.t # "dict" THEN Raise("TypeError")
             ELSE MakePack(MergeMeta(under, over),
                           PyOr(Get(rules_doc, "rules"), VList(<< >>)), name)

\* the body of the loop of load_all_rules for one entry of the root: the packs
\* it appends (none or one), or the exception it raises
load_one(d) ==
    IF ~d.is_dir THEN Ok(<< >>)
    ELSE IF ~RulesPathExists(d) THEN Ok(<< >>)
    ELSE LET rl == _safe_load(d.rules)
             ml == _safe_load(d.meta)
         IN  IF rl.k = "raise" THEN rl
             ELSE IF ml.k = "raise" THEN ml
             ELSE NormalizePack(PyOr(rl.v, EmptyDoc), PyOr(ml.v, EmptyDoc), d.name)

RECURSIVE load_from(_, _)
load_from(entries, acc) ==
    IF entries = << >> THEN Ok(acc)
    ELSE LET one == load_one(Head(entries))
         IN  IF one.k = "raise" THEN one
             ELSE load_from(Tail(entries), acc \o one.v)

\* load_all_rules(root), for the entries of root in iteration order
load_all_rules(entries) == load_from(entries, << >>)

\* an entry of the storage root: a policy directory with its two definition
\* files, or something that is not a directory
Dir(name, rules_file, meta_file) ==
    [name |-> name, is_dir |-> TRUE, rules |-> rules_file, meta |-> meta_file]

NotDir(name) == [name |-> name, is_dir |-> FALSE, rules |-> Missing, meta |-> Missing]

MetaA == MetaFull(VStr(<< "p", "a" >>), StrList(<< << "A", "E" >> >>), VAbsent)

MetaB == MetaFull(VStr(<< "p", "b" >>), VAbsent, StrList(<< << "P", "e", "t" >> >>))

MetaEmptyId == MetaFull(VStr(<< >>), VAbsent, StrList(<< << "P", "e", "t" >> >>))

MetaNoId == MetaFull(VAbsent, StrList(<< << "U", "S" >> >>), VAbsent)

MetaNoneId == MetaFull(VNone, VNone, VAbsent)

RulesA == PackA.d.rules

RulesB == PackB.d.rules

\* policy directories in the three on-disk shapes, with and without a
\* metadata definition, with missing, unparseable, empty and ill-shaped files
DirPool ==
    { Dir(<< "a" >>, Parsed(Doc(MetaA, RulesA)), Missing),
      Dir(<< "b" >>, Parsed(Doc(VAbsent, RulesB)), Parsed(Doc(MetaB, VAbsent))),
      Dir(<< "c" >>, Parsed(RulesA), Parsed(Doc(MetaNoId, VAbsent))),
      Dir(<< "d" >>, Parsed(Doc(MetaA, RulesB)), Parsed(Doc(MetaEmptyId, VAbsent))),
      Dir(<< "e" >>, Parsed(Doc(MetaA, RulesA)), Parsed(Doc(MetaB, VAbsent))),
      Dir(<< "f" >>, Missing, Parsed(VList(<< VStr(<< "x" >>) >>))),
      NotDir(<< "g" >>),
      Dir(<< "h" >>, Unparseable, Parsed(Doc(MetaB, VAbsent))),
      Dir(<< "i" >>, Parsed(RulesB), Unparseable),
      Dir(<< "j" >>, Unparseable, Unparseable),
      Dir(<< "k" >>, Parsed(VNone), Missing),
      Dir(<< "l" >>, Parsed(RulesA), Parsed(Doc(VNone, VAbsent))),
      Dir(<< "m" >>, Parsed(VStr(<< "x" >>)), Missing),
      Dir(<< "n" >>, Parsed(Doc(MetaNoneId, RulesA)), Parsed(Doc(MetaNoId, VAbsent))),
      Dir(<< "o" >>, Parsed(Doc(MetaB, RulesB)), Parsed(Doc(MetaNoneId, VAbsent))),
      Dir(<< "q" >>, Parsed(RulesB), Parsed(Doc(MetaB, VAbsent))) }

\* the entries of a root have different names
Roots ==
    { s \in SeqsUpTo(DirPool, MaxDirs) :
        \A i, j \in DOMAIN s : i # j => s[i].name # s[j].name }

\* load_all_rules(root) is entered: packs = []
InitLoad ==
    /\ NoRegistry
    /\ sku = Sku(VNone, VNone, VNone, VNone)
    /\ rules = << >>
    /\ idx = 1
    /\ findings = << >>
    /\ pc = "loading"
    /\ exc = "none"
    /\ NoCats
    /\ NoHeap
    /\ root \in Roots
    /\ dir_i = 1
    /\ NoCalls
    /\ NoApp

\* one turn of `for policy_dir in Path(root).iterdir()`
LoadStep ==
    /\ pc = "loading"
    /\ dir_i <= Len(root)
    /\ LET one == load_one(root[dir_i])
       IN  IF one.k = "raise"
           THEN /\ pc' = "raised"
                /\ exc' = one.exc
                /\ UNCHANGED << packs, dir_i >>
           ELSE /\ packs' = packs \o one.v
                /\ dir_i' = dir_i + 1
                /\ UNCHANGED << pc, exc >>
    /\ UNCHANGED << market, categories, sel, sku, rules, idx, findings, root >>
    /\ UNCHANGED catVars
    /\ UNCHANGED << heapVars, callVars, appVars >>

\* return packs
LoadReturn ==
    /\ pc = "loading"
    /\ dir_i > Len(root)
    /\ pc' = "loaded"
    /\ UNCHANGED << packs, market, categories, sel, sku, rules, idx, findings, exc >>
    /\ UNCHANGED catVars
    /\ UNCHANGED << heapVars, callVars, appVars >>
    /\ UNCHANGED loadVars

NextLoad == LoadStep \/ LoadReturn

\* one load of the packs of a storage root
SpecLoad == InitLoad /\ [][NextLoad]_vars

\* ------------------------------------------------------------------------
\* validate_with_rules: several invocations, their frames and their lists
\* ------------------------------------------------------------------------

\* most invocations of validate_with_rules in one run
MaxCalls == 2

Calls == 1..MaxCalls

RECURSIVE validate_from(_, _, _)
validate_from(item, rs, fs) ==
    IF rs = << >> THEN Ok(fs)
    ELSE LET one == validate_one(item, Head(rs))
         IN  IF one.k = "raise" THEN one
             ELSE validate_from(item, Tail(rs), AppendFindings(fs, one.v))

\* validate_with_rules(sku, rules), one invocation from entry to return
validate_with_rules(item, rs) == validate_from(item, rs, << >>)

\* the mappings Rule(**m) accepts: the four fields without a default are given
HasRequiredFields(m) ==
    /\ m.t = "dict"
    /\ m.d.id # VAbsent
    /\ m.d.section # VAbsent
    /\ m.d.type # VAbsent
    /\ m.d.params # VAbsent

\* Rule(**m): the record of a mapping's keys, the dataclass defaults for the
\* keys it omits
Rule(m) ==
    VRule([id        |-> m.d.id,
           section   |-> m.d.section,
           type      |-> m.d.type,
           params    |-> m.d.params,
           severity  |-> IF m.d.severity = VAbsent THEN VStr(<< "w", "a", "r", "n", "i", "n", "g" >>) ELSE m.d.severity,
           message   |-> IF m.d.message = VAbsent THEN VStr(<< >>) ELSE m.d.message,
           citation  |-> IF m.d.citation = VAbsent THEN VNone ELSE m.d.citation,
           policy_id |-> IF m.d.policy_id = VAbsent THEN VNone ELSE m.d.policy_id,
           scope     |-> IF m.d.scope = VAbsent THEN VNone ELSE m.d.scope])

Records(rs) == [ k \in DOMAIN rs |-> Rule(rs[k]) ]

\* the items of the concurrent invocations: two listings with a title
CallItems == { s \in Items : Truthy(s.title) }

\* rules of a shared list: a mapping that leaves out severity and message, a
\* Rule record, and a mapping whose bound is no number
CallRulePool ==
    { MkRule(VStr(<< "B", "1" >>), VStr(<< "b", "u", "l", "l", "e", "t", "s" >>), VStr(<< "m", "a", "x", "_", "c", "o", "u", "n", "t" >>), ValueParam(VInt(2)),
             VAbsent, VAbsent, VStr(<< "p", "a" >>), VAbsent),
      VRule([id |-> VStr(<< "D", "1" >>), section |-> VStr(<< "d", "e", "s", "c", "r", "i", "p", "t", "i", "o", "n" >>),
             type |-> VStr(<< "n", "o", "_", "u", "r", "l", "s", "_", "e", "m", "a", "i", "l", "s" >>), params |-> EmptyParams,
             severity |-> VStr(<< "i", "n", "f", "o" >>), message |-> VStr(<< >>), citation |-> VNone,
             policy_id |-> VStr(<< "p", "b" >>), scope |-> VNone]),
      MkRule(VStr(<< "T", "4" >>), VStr(<< "t", "i", "t", "l", "e" >>), VStr(<< "m", "i", "n", "_", "l", "e", "n", "g", "t", "h" >>), ValueParam(VStr(<< "a", "b", "c" >>)),
             VAbsent, VAbsent, VAbsent, VAbsent) }

NoEngine ==
    /\ NoRegistry
    /\ sku = Sku(VNone, VNone, VNone, VNone)
    /\ idx = 1
    /\ findings = << >>
    /\ exc = "none"

NotStarted ==
    /\ c_pc = [ c \in Calls |-> "idle" ]
    /\ c_idx = [ c \in Calls |-> 1 ]
    /\ c_list = [ c \in Calls |-> 0 ]
    /\ c_out = [ c \in Calls |-> NotCalled ]
    /\ lists = [ c \in Calls |-> << >> ]

\* callers about to validate their items against one shared rule list
InitCalls ==
    /\ NoEngine
    /\ rules \in SeqsUpTo(CallRulePool, MaxRules)
    /\ pc = "calls"
    /\ NoCats
    /\ NoHeap
    /\ NoLoad
    /\ c_sku \in [Calls -> CallItems]
    /\ c_rules = [ c \in Calls |-> rules ]
    /\ NotStarted
    /\ NoApp

\* callers about to validate one item, the first against a list of mappings,
\* the others against the list of the Rule records of those mappings
InitForms ==
    /\ NoEngine
    /\ rules \in { rs \in SeqsUpTo(CallRulePool, MaxRules) :
                     \A k \in DOMAIN rs : HasRequiredFields(rs[k]) }
    /\ pc = "calls"
    /\ NoCats
    /\ NoHeap
    /\ NoLoad
    /\ \E item \in CallItems : c_sku = [ c \in Calls |-> item ]
    /\ c_rules = [ c \in Calls |-> IF c = 1 THEN rules ELSE Records(rules) ]
    /\ NotStarted
    /\ NoApp

\* a slip: findings is one module-level list, emptied on entry
SharedListAddr(c) == 1

\* findings = []: the name is bound to a new list; the list made by
\* invocation c has address c
NewListAddr(c) == c

\* a slip: the loop position is module state, one for all invocations
IdxCellShared(c) == 1

\* the loop position belongs to the invocation's own frame
IdxCell(c) == c

\* an invocation of validate_with_rules is entered: findings = []
CallEnter ==
    \E c \in Calls :
        /\ pc = "calls"
        /\ c_pc[c] = "idle"
        /\ c_pc' = [c_pc EXCEPT ![c] = "running"]
        /\ c_list' = [c_list EXCEPT ![c] = NewListAddr(c)]
        /\ lists' = [lists EXCEPT ![NewListAddr(c)] = << >>]
        /\ c_idx' = [c_idx EXCEPT ![IdxCell(c)] = 1]
        /\ UNCHANGED << c_sku, c_rules, c_out >>
        /\ UNCHANGED << engineVars, catVars, heapVars, loadVars, appVars >>

\* one turn of `for raw in rules` of one invocation
CallStep ==
    \E c \in Calls :
        /\ pc = "calls"
        /\ c_pc[c] = "running"
        /\ c_idx[IdxCell(c)] <= Len(c_rules[c])
        /\ LET one == validate_one(c_sku[c], c_rules[c][c_idx[IdxCell(c)]])
           IN  IF one.k = "raise"
               THEN /\ c_pc' = [c_pc EXCEPT ![c] = "raised"]
                    /\ c_out' = [c_out EXCEPT ![c] = one]
                    /\ UNCHANGED << c_idx, lists >>
               ELSE /\ lists' = [lists EXCEPT ![c_list[c]] = AppendFindings(@, one.v)]
                    /\ c_idx' = [c_idx EXCEPT ![IdxCell(c)] = @ + 1]
                    /\ UNCHANGED << c_pc, c_out >>
        /\ UNCHANGED << c_sku, c_rules, c_list >>
        /\ UNCHANGED << engineVars, catVars, heapVars, loadVars, appVars >>

\* return findings, of one invocation
CallReturn ==
    \E c \in Calls :
        /\ pc = "calls"
        /\ c_pc[c] = "running"
        /\ c_idx[IdxCell(c)] > Len(c_rules[c])
        /\ c_pc' = [c_pc EXCEPT ![c] = "done"]
        /\ c_out' = [c_out EXCEPT ![c] = Ok(lists[c_list[c]])]
        /\ UNCHANGED << c_sku, c_rules, c_idx, c_list, lists >>
        /\ UNCHANGED << engineVars, catVars, heapVars, loadVars, appVars >>

NextCalls == CallEnter \/ CallStep \/ CallReturn

\* invocations of validate_with_rules, their steps interleaved in every order
SpecCalls == (InitCalls \/ InitForms) /\ [][NextCalls]_vars

\* ------------------------------------------------------------------------
\* The check library on bullets, lengths and counts
\* ------------------------------------------------------------------------

\* longest text, longest list and largest bound of the numeric checks
MaxLen == 3

\* longest bullet list of the bullet checks
MaxBullets == 2

LibTexts == { VStr(s) : s \in SeqsUpTo({ "x" }, MaxLen) } \cup { VNone }

LibLists == { VList(l) : l \in SeqsUpTo({ VStr(<< "u" >>) }, MaxLen) } \cup { VNone }

LibValues == { VInt(n) : n \in 0..MaxLen }

NumericTypes == { << "m", "a", "x", "_", "l", "e", "n", "g", "t", "h" >>, << "m", "i", "n", "_", "l", "e", "n", "g", "t", "h" >>, << "m", "a", "x", "_", "c", "o", "u", "n", "t" >>, << "m", "i", "n", "_", "c", "o", "u", "n", "t" >> }

BulletTypes == { << "n", "o", "_", "e", "n", "d", "i", "n", "g", "_", "p", "u", "n", "c", "t" >>, << "b", "u", "l", "l", "e", "t", "s", "_", "c", "a", "p", "i", "t", "a", "l", "i", "z", "e", "d" >>, << "b", "u", "l", "l", "e", "t", "s", "_", "n", "u", "m", "b", "e", "r", "s", "_", "a", "s", "_", "n", "u", "m", "e", "r", "a", "l", "s" >> }

\* bullets as a listing holds them: plain, marked, numbered, with and without
\* closing punctuation, with number words, empty, blank and missing
BulletPool ==
    { VStr(<<  >>), VStr(<< " " >>), VStr(<< "O", "k", "." >>), VStr(<< "o", "k", ".", " " >>), VStr(<< "O", "k", "," >>),
      VStr(<< "-", " ", "o", "k" >>), VStr(<< "-", " ", "O", "k", "!" >>), VStr(<< "2", " ", "O", "k" >>), VStr(<< "1", "2" >>),
      VStr(<< "F", "i", "v", "e", " ", "c", "u", "p", "s" >>), VStr(<< "h", "a", "s", " ", "t", "w", "o" >>), VStr(<< "H", "a", "s", " ", "f", "i", "v", "e", "." >>), VStr(<< "t", "w", "o", "f", "o", "l", "d" >>),
      VNone }

BulletLists == { VList(l) : l \in SeqsUpTo(BulletPool, MaxBullets) }

PunctuationParams ==
    { VAbsent, EmptyParams, Params(VAbsent, VAbsent, VAbsent, VStr(<< "," >>)) }

LibRule(section, type, params) ==
    MkRule(VStr(<< "R" >>), VStr(section), VStr(type), params, VAbsent, VAbsent, VAbsent, VAbsent)

\* a numeric check against texts and lists of every length up to MaxLen
InitNumeric ==
    /\ \E t \in LibTexts, l \in LibLists :
          sku \in { Sku(t, l, VNone, VNone), Sku(VNone, VNone, t, l) }
    /\ rules \in { << LibRule(s, ty, ValueParam(v)) >> :
                     s \in Sections, ty \in NumericTypes, v \in LibValues }

\* a bullet check against a list of bullets
InitBullets ==
    /\ sku \in { Sku(VStr(<< "T" >>), b, VNone, VNone) : b \in BulletLists }
    /\ rules \in { << LibRule(<< "b", "u", "l", "l", "e", "t", "s" >>, << "n", "o", "_", "e", "n", "d", "i", "n", "g", "_", "p", "u", "n", "c", "t" >>, p) >> : p \in PunctuationParams }
               \cup { << LibRule(<< "b", "u", "l", "l", "e", "t", "s" >>, ty, VAbsent) >> : ty \in BulletTypes }

InitLibrary ==
    /\ NoRegistry
    /\ InitNumeric \/ InitBullets
    /\ idx = 1
    /\ findings = << >>
    /\ pc = "direct"
    /\ exc = "none"
    /\ NoCats
    /\ NoOther

\* the check library on lengths, counts and bullets, one rule at a time
SpecLibrary == InitLibrary /\ [][NextValidate]_vars

\* ------------------------------------------------------------------------
\* The pipeline load_all_rules -> select_rules -> validate_with_rules
\* ------------------------------------------------------------------------

\* policy directories whose rule ids are unique within the directory: two
\* that give the same policy_id, one named by its directory, and two whose
\* policy_id and rule id join to the same text
PipeDirPool ==
    { Dir(<< "p", "a" >>, Parsed(Doc(MetaA, RulesA)), Missing),
      Dir(<< "x" >>, Parsed(Doc(VAbsent, RulesB)), Parsed(Doc(MetaA, VAbsent))),
      Dir(<< "p", "b" >>, Parsed(RulesB), Missing),
      Dir(<< "a" >>, Parsed(Doc(MetaFull(VStr(<< "a" >>), VAbsent, VAbsent),
                           VList(<< MkRule(VStr(<< "b", ":", "T", "1" >>), VStr(<< "t", "i", "t", "l", "e" >>), VStr(<< "m", "i", "n", "_", "l", "e", "n", "g", "t", "h" >>),
                                           ValueParam(VInt(1)), VAbsent, VAbsent, VAbsent, VAbsent) >>))),
          Missing),
      Dir(<< "a", ":", "b" >>, Parsed(VList(<< MkRule(VStr(<< "T", "1" >>), VStr(<< "t", "i", "t", "l", "e" >>), VStr(<< "m", "a", "x", "_", "l", "e", "n", "g", "t", "h" >>),
                                         ValueParam(VInt(3)), VAbsent, VAbsent, VAbsent, VAbsent) >>)),
          Missing),
      Dir(<< "z" >>, Unparseable, Missing) }

PipeRoots ==
    { s \in SeqsUpTo(PipeDirPool, MaxDirs) :
        \A i, j \in DOMAIN s : i # j => s[i].name # s[j].name }

\* run_compare up to its findings: the root is read, then the rules of the
\* market are selected and the item is validated
InitPipeline ==
    /\ packs = << >>
    /\ market \in SelMarkets
    /\ categories \in SelCategoryLists
    /\ sel = NotCalled
    /\ sku \in Items
    /\ rules = << >>
    /\ idx = 1
    /\ findings = << >>
    /\ pc = "loading"
    /\ exc = "none"
    /\ NoCats
    /\ NoHeap
    /\ root \in PipeRoots
    /\ dir_i = 1
    /\ NoCalls
    /\ NoApp

\* rules = select_rules(packs, market, categories) on the loaded packs
SelectLoaded ==
    /\ pc = "loaded"
    /\ sel' = select_rules(packs, market, categories)
    /\ pc' = IF sel'.k = "raise" THEN "raised" ELSE "selected"
    /\ exc' = IF sel'.k = "raise" THEN sel'.exc ELSE exc
    /\ UNCHANGED << packs, market, categories, sku, rules, idx, findings >>
    /\ UNCHANGED catVars
    /\ UNCHANGED otherVars

NextPipeline == NextLoad \/ SelectLoaded \/ NextValidate

SpecPipeline == InitPipeline /\ [][NextPipeline]_vars

\* ------------------------------------------------------------------------
\* The comparison step's policy counts (compare.py)
\* ------------------------------------------------------------------------

\* longest findings list handed to the comparison step
MaxFindings == 2

\* getattr(f, "severity", "warning")
SeverityAttr(f) == IF f.severity = VAbsent THEN DefaultSeverity ELSE f.severity

\* (not f.passed) and severity == "error"
IsError(f) == ~f.passed /\ SeverityAttr(f) = VStr(<< "e", "r", "r", "o", "r" >>)

\* a slip: only the severity "warning" counted as a warning
IsWarningNamed(f) == ~f.passed /\ SeverityAttr(f) = VStr(<< "w", "a", "r", "n", "i", "n", "g" >>)

\* (not f.passed) and severity != "error"
IsWarning(f) == ~f.passed /\ SeverityAttr(f) # VStr(<< "e", "r", "r", "o", "r" >>)

\* fs = [f for f in findings if (section is None or f.section == section)]
InSection(f, section) == section = VNone \/ f.section = section

\* sum(1 for f in fs if ...): the number of positions of the list
CountOf(fs, section, errors) ==
    Cardinality({ k \in DOMAIN fs :
                    /\ InSection(fs[k], section)
                    /\ IF errors THEN IsError(fs[k]) ELSE IsWarning(fs[k]) })

\* _policy_counts(findings, section): total, errors, warnings
_policy_counts(fs, section) ==
    [total    |-> Cardinality({ k \in DOMAIN fs : InSection(fs[k], section) }),
     errors   |-> CountOf(fs, section, TRUE),
     warnings |-> CountOf(fs, section, FALSE)]

ComparisonRow(section, metric, client, competitor, gap) ==
    [section |-> section, metric |-> metric, client |-> client,
     competitor |-> competitor, gap |-> gap]

\* _policy_rows(tag, client_find, comp_find)
_policy_rows(tag, client_find, k_find) ==
    LET c == _policy_counts(client_find, VNone)
        k == _policy_counts(k_find, VNone)
    IN  << ComparisonRow(<< "p", "o", "l", "i", "c", "y", ":" >> \o tag, << "r", "u", "l", "e", "s", "_", "t", "o", "t", "a", "l" >>, c.total, k.total, "-"),
           ComparisonRow(<< "p", "o", "l", "i", "c", "y", ":" >> \o tag, << "e", "r", "r", "o", "r", "s" >>, c.errors, k.errors, c.errors - k.errors),
           ComparisonRow(<< "p", "o", "l", "i", "c", "y", ":" >> \o tag, << "w", "a", "r", "n", "i", "n", "g", "s" >>, c.warnings, k.warnings,
                         c.warnings - k.warnings) >>

\* the sections _policy_rows_per_section goes through, in its order
RowSections == << << "t", "i", "t", "l", "e" >>, << "b", "u", "l", "l", "e", "t", "s" >>, << "d", "e", "s", "c", "r", "i", "p", "t", "i", "o", "n" >> >>

\* the two rows of one section in _policy_rows_per_section
SectionRows(sec, client_find, k_find) ==
    LET c == _policy_counts(client_find, VStr(sec))
        k == _policy_counts(k_find, VStr(sec))
    IN  << ComparisonRow(<< "p", "o", "l", "i", "c", "y", ":" >> \o sec, << "e", "r", "r", "o", "r", "s" >>, c.errors, k.errors, c.errors - k.errors),
           ComparisonRow(<< "p", "o", "l", "i", "c", "y", ":" >> \o sec, << "w", "a", "r", "n", "i", "n", "g", "s" >>, c.warnings, k.warnings,
                         c.warnings - k.warnings) >>

\* _policy_rows_per_section(client_find, comp_find)
_policy_rows_per_section(client_find, k_find) ==
    SectionRows(RowSections[1], client_find, k_find)
        \o SectionRows(RowSections[2], client_find, k_find)
        \o SectionRows(RowSections[3], client_find, k_find)

\* a finding as validate_with_rules leaves it, and one without the severity
\* attribute (a Finding built elsewhere)
MkFinding(section, passed, severity) ==
    [section |-> VStr(section), rule_id |-> VStr(<< "R" >>), passed |-> passed,
     message |-> VStr(<< "m" >>), citation |-> VNone, severity |-> severity]

FindingPool ==
    { MkFinding(s, o[1], o[2]) :
        s \in Sections,
        o \in { << TRUE, VStr(<< "e", "r", "r", "o", "r" >>) >>, << FALSE, VStr(<< "e", "r", "r", "o", "r" >>) >>,
                << FALSE, VStr(<< "w", "a", "r", "n", "i", "n", "g" >>) >>, << FALSE, VStr(<< "i", "n", "f", "o" >>) >>,
                << FALSE, VNone >>, << FALSE, VAbsent >> } }

CompetitorFindings ==
    { << >>, << MkFinding(<< "t", "i", "t", "l", "e" >>, FALSE, VStr(<< "e", "r", "r", "o", "r" >>)), MkFinding(<< "i", "m", "a", "g", "e", "s" >>, FALSE, VNone) >> }

\* compare_sections reaches its policy overview with both findings lists
InitCounts ==
    /\ NoRegistry
    /\ sku = Sku(VNone, VNone, VNone, VNone)
    /\ rules = << >>
    /\ idx = 1
    /\ findings \in SeqsUpTo(FindingPool, MaxFindings)
    /\ pc = "compare"
    /\ exc = "none"
    /\ NoCats
    /\ NoHeap
    /\ NoLoad
    /\ NoCalls
    /\ recs_raw = << >>
    /\ recs_norm = << >>
    /\ result = NotCalled
    /\ state = [results |-> VNone, approved |-> FALSE]
    /\ blists = << >>
    /\ log = << >>
    /\ comp_find \in CompetitorFindings
    /\ table = << >>

\* table.extend(_policy_rows('overall', client_findings, comp_findings))
PolicyRowsOverall ==
    /\ pc = "compare"
    /\ table' = table \o _policy_rows(<< "o", "v", "e", "r", "a", "l", "l" >>, findings, comp_find)
    /\ pc' = "overall"
    /\ UNCHANGED << packs, market, categories, sel, sku, rules, idx, findings, exc >>
    /\ UNCHANGED << catVars, heapVars, loadVars, callVars >>
    /\ UNCHANGED << recs_raw, recs_norm, result, state, blists, log, comp_find >>

\* table.extend(_policy_rows_per_section(client_findings, comp_findings))
PolicyRowsPerSection ==
    /\ pc = "overall"
    /\ table' = table \o _policy_rows_per_section(findings, comp_find)
    /\ pc' = "compared"
    /\ UNCHANGED << packs, market, categories, sel, sku, rules, idx, findings, exc >>
    /\ UNCHANGED << catVars, heapVars, loadVars, callVars >>
    /\ UNCHANGED << recs_raw, recs_norm, result, state, blists, log, comp_find >>

NextCounts == PolicyRowsOverall \/ PolicyRowsPerSection

SpecCounts == InitCounts /\ [][NextCounts]_vars

\* ------------------------------------------------------------------------
\* run_compare after the findings: suggestions and draft (skill.py)
\* ------------------------------------------------------------------------

\* most items a suggestion generator returns
MaxRecs == 3

\* run_compare keeps this many suggestions
SuggestionCount == 3

\* the title length above which a title is shortened
TitleLimit == 200

\* most bullets a fallback suggestion keeps
BulletLimit == 5

LeChar == "u2264"

UpperChar(c) ==
    IF IsLowerChar(c) THEN UpperChars[CHOOSE i \in DOMAIN LowerChars : LowerChars[i] = c] ELSE c

\* str.title(): a letter after a non-letter or at the start in upper case,
\* every other letter in lower case
TitleCase(s) ==
    [ i \in DOMAIN s |->
        IF i = 1 \/ ~IsAlphaChar(s[i - 1]) THEN UpperChar(s[i]) ELSE LowerChar(s[i]) ]

\* s.split(sep) for a separator of one character
RECURSIVE Split(_, _)
Split(s, sep) ==
    IF \A i \in DOMAIN s : s[i] # sep THEN << s >>
    ELSE LET k == CHOOSE i \in DOMAIN s : s[i] = sep /\ \A j \in 1..(i - 1) : s[j] # sep
         IN  << SubSeq(s, 1, k - 1) >> \o Split(SubSeq(s, k + 1, Len(s)), sep)

\* s.count(sub): occurrences of sub in s that do not overlap, from the left
RECURSIVE CountSub(_, _)
CountSub(s, sub) ==
    IF Len(s) < Len(sub) THEN 0
    ELSE IF SubSeq(s, 1, Len(sub)) = sub
         THEN 1 + CountSub(SubSeq(s, Len(sub) + 1, Len(s)), sub)
         ELSE CountSub(Tail(s), sub)

\* s.replace(old, new)
RECURSIVE Replace(_, _, _)
Replace(s, old, new) ==
    IF Len(s) < Len(old) THEN s
    ELSE IF SubSeq(s, 1, Len(old)) = old
         THEN new \o Replace(SubSeq(s, Len(old) + 1, Len(s)), old, new)
         ELSE << Head(s) >> \o Replace(Tail(s), old, new)

\* s[:n]
Prefix(s, n) == SubSeq(s, 1, IF Len(s) < n THEN Len(s) ELSE n)

\* s.strip(chars)
StripChars(s, chars) == RStripChars(LStripChars(s, chars), chars)

\* str(item)
StrOf(v) == IF v.t = "str" THEN v.s ELSE << "N", "o", "n", "e" >>

\* _coerce_list(x): bullets as a clean list, from a list or a multiline string
_coerce_list(x) ==
    CASE x.t = "none" -> VList(<< >>)
      [] x.t = "list" ->
            LET text == [ i \in DOMAIN x.l |-> LStripChars(Strip(StrOf(x.l[i])), BulletMarkers) ]
            IN  StrList(SelectSeq(text, LAMBDA t : t # << >>))
      [] x.t = "str" ->
            LET parts == Split(x.s, "\n")
                clean == [ i \in DOMAIN parts |-> StripChars(parts[i], BulletMarkers) ]
            IN  StrList(SelectSeq(clean, LAMBDA t : t # << >>))

\* _get_attr(o, *names, default): the first of the names the item has
RECURSIVE _get_attr(_, _, _)
_get_attr(o, names, dflt) ==
    IF names = << >> THEN dflt
    ELSE IF o.d[Head(names)] # VAbsent THEN o.d[Head(names)]
    ELSE _get_attr(o, Tail(names), dflt)

\* the section of a suggestion that names none: guessed from its title
GuessSection(r) ==
    LET t == Lower(PyOr(_get_attr(r, << "title" >>, VStr(<< >>)), VStr(<< >>)).s)
    IN  IF Contains(t, << "t", "i", "t", "l", "e" >>) THEN VStr(<< "t", "i", "t", "l", "e" >>)
        ELSE IF Contains(t, << "b", "u", "l", "l", "e", "t" >>) THEN VStr(<< "b", "u", "l", "l", "e", "t", "s" >>)
        ELSE IF Contains(t, << "d", "e", "s", "c", "r", "i", "p", "t", "i", "o", "n" >>) THEN VStr(<< "d", "e", "s", "c", "r", "i", "p", "t", "i", "o", "n" >>)
        ELSE VStr(<< "u", "n", "k", "n", "o", "w", "n" >>)

Suggestion(section, title, before, after, rationale, references) ==
    VDict([section |-> section, title |-> title, before |-> before, after |-> after,
           rationale |-> rationale, references |-> references])

\* one turn of the loop of _normalize_recs
NormalizeRec(r) ==
    LET given   == _get_attr(r, << "section", "type" >>, VNone)
        named   == IF Truthy(given) THEN given ELSE GuessSection(r)
        section == VStr(Lower(Strip(named.s)))
    IN  Suggestion(section,
                   _get_attr(r, << "title" >>,
                             IF Truthy(section) THEN VStr(TitleCase(section.s))
                             ELSE VStr(<< "S", "u", "g", "g", "e", "s", "t", "i", "o", "n" >>)),
                   _get_attr(r, << "before" >>, VStr(<< >>)),
                   _get_attr(r, << "after" >>, VStr(<< >>)),
                   _get_attr(r, << "rationale" >>, VStr(<< >>)),
                   PyOr(_get_attr(r, << "references" >>, VList(<< >>)), VList(<< >>)))

\* _normalize_recs(recs)
_normalize_recs(raw) == [ i \in DOMAIN raw |-> NormalizeRec(raw[i]) ]

\* [r for r in recs_norm if r.get("after")]
WithAfter(rs) == SelectSeq(rs, LAMBDA r : Truthy(r.d.after))

\* any((not f.passed) and f.section == "bullets" for f in client_findings)
bullets_fail(client_findings) ==
    \E k \in DOMAIN client_findings :
        ~client_findings[k].passed /\ client_findings[k].section = VStr(<< "b", "u", "l", "l", "e", "t", "s" >>)

BulletsFallback(client) ==
    LET before_bs == _coerce_list(PyOr(client.bullets, VList(<< >>)))
        trimmed   == [ i \in DOMAIN before_bs.l |->
                         VStr(RStripChars(RStripChars(before_bs.l[i].s, SpaceChars),
                                          { ".", ";", ":", "!" })) ]
        kept      == Prefix(trimmed, BulletLimit)
        pieces    == Prefix(Split(client.title.s, ","), BulletLimit)
        after_bs  == IF kept = << >> /\ Truthy(client.title)
                     THEN [ i \in DOMAIN pieces |-> VStr(Strip(pieces[i])) ]
                     ELSE kept
    IN  Suggestion(VStr(<< "b", "u", "l", "l", "e", "t", "s" >>),
                   VStr(<< "B", "u", "l", "l", "e", "t", "s", ":", " ", "r", "e", "d", "u", "c", "e", " ", "t", "o", " ", "f", "i", "v", "e", " ", "a", "n", "d", " ", "r", "e", "m", "o", "v", "e", " ", "e", "n", "d", " ", "p", "u", "n", "c", "t", "u", "a", "t", "i", "o", "n" >>),
                   before_bs, VList(after_bs),
                   VStr(<< "U", "p", " ", "t", "o", " ", "f", "i", "v", "e", " ", "b", "u", "l", "l", "e", "t", "s", ";", " ", "s", "e", "n", "t", "e", "n", "c", "e", " ", "f", "r", "a", "g", "m", "e", "n", "t", "s", ";", " ", "n", "o", " ", "e", "n", "d", "i", "n", "g", " ", "p", "u", "n", "c", "t", "u", "a", "t", "i", "o", "n", "." >>),
                   StrList(<< << "B", "U", "L", "L", "E", "T", "S", "_", "M", "A", "X", "5" >>, << "B", "U", "L", "L", "E", "T", "S", "_", "N", "O", "_", "E", "N", "D", "_", "P", "U", "N", "C", "T" >> >>))

TitleFallback(client) ==
    Suggestion(VStr(<< "t", "i", "t", "l", "e" >>),
               VStr(<< "T", "i", "t", "l", "e", ":", " ", "s", "h", "o", "r", "t", "e", "n", " ", "t", "o", " " >> \o << LeChar >> \o << "2", "0", "0", " ", "c", "h", "a", "r", "a", "c", "t", "e", "r", "s" >>),
               client.title,
               VStr(RStripChars(Prefix(client.title.s, TitleLimit), SpaceChars)),
               VStr(<< "K", "e", "e", "p", " ", "t", "i", "t", "l", "e", "s", " ", "c", "o", "n", "c", "i", "s", "e", " ", "(" >> \o << LeChar >> \o << "2", "0", "0", " ", "c", "h", "a", "r", "s", ")", "." >>),
               StrList(<< << "T", "I", "T", "L", "E", "_", "M", "A", "X", "L", "E", "N", "_", "2", "0", "0" >> >>))

\* desc = (client.description or "").strip()
StrippedDescription(client) == Strip(PyOr(client.description, VStr(<< >>)).s)

SynthDescription ==
    << "S", "c", "i", "e", "n", "t", "i", "f", "i", "c", "a", "l", "l", "y", " ", "f", "o", "r", "m", "u", "l", "a", "t", "e", "d", " ", "t", "o", " ", "r", "e", "p", "l", "a", "c", "e", " ", "f", "l", "u", "i", "d", "s", " ", "a", "n", "d", " ", "5", " ", "k", "e", "y", " ", "e", "l", "e", "c", "t", "r", "o", "l", "y", "t", "e", "s", " " >>
    \o << "(", "S", "o", "d", "i", "u", "m", ",", " ", "P", "o", "t", "a", "s", "s", "i", "u", "m", ",", " ", "C", "h", "l", "o", "r", "i", "d", "e", ",", " ", "M", "a", "g", "n", "e", "s", "i", "u", "m", ",", " ", "C", "a", "l", "c", "i", "u", "m", ")", ".", " ", "V", "a", "r", "i", "e", "t", "y", " ", "p", "a", "c", "k", " ", "w", "i", "t", "h", " " >>
    \o << "O", "r", "a", "n", "g", "e", ",", " ", "C", "h", "e", "r", "r", "y", " ", "L", "i", "m", "e", ",", " ", "a", "n", "d", " ", "W", "a", "t", "e", "r", "m", "e", "l", "o", "n", ";", " ", "n", "o", " ", "a", "r", "t", "i", "f", "i", "c", "i", "a", "l", " ", "s", "w", "e", "e", "t", "e", "n", "e", "r", "s", " ", "o", "r", " ", "f", "l", "a", "v", "o", "r", "s", ";", " " >>
    \o << "l", "o", "w", "e", "r", " ", "s", "u", "g", "a", "r", " ", "(", "1", "0", "g", " ", "p", "e", "r", " ", "1", "6", ".", "9", " ", "f", "l", " ", "o", "z", " ", "s", "e", "r", "v", "i", "n", "g", ")", "." >>

DescriptionFallback(client) ==
    LET desc == StrippedDescription(client)
    IN  Suggestion(VStr(<< "d", "e", "s", "c", "r", "i", "p", "t", "i", "o", "n" >>),
                   VStr(<< "D", "e", "s", "c", "r", "i", "p", "t", "i", "o", "n", ":", " ", "a", "d", "d", " ", "a", " ", "c", "o", "n", "c", "i", "s", "e", ",", " ", "u", "n", "i", "q", "u", "e", " ", "p", "a", "r", "a", "g", "r", "a", "p", "h" >>),
                   IF desc # << >> THEN VStr(desc) ELSE VStr(<< "(", "e", "m", "p", "t", "y", ")" >>),
                   VStr(SynthDescription),
                   VStr(<< "P", "r", "o", "v", "i", "d", "e", " ", "a", " ", "c", "o", "n", "c", "i", "s", "e", ",", " ", "t", "r", "u", "t", "h", "f", "u", "l", " ", "d", "e", "s", "c", "r", "i", "p", "t", "i", "o", "n", " ", "d", "i", "s", "t", "i", "n", "c", "t", " ", "f", "r", "o", "m", " ", "b", "u", "l", "l", "e", "t", "s", "." >>),
                   StrList(<< << "D", "E", "S", "C", "R", "I", "P", "T", "I", "O", "N", "_", "C", "O", "N", "C", "I", "S", "E" >> >>))

Flavors == { << "O", "r", "a", "n", "g", "e" >>, << "C", "h", "e", "r", "r", "y", " ", "L", "i", "m", "e" >>, << "W", "a", "t", "e", "r", "m", "e", "l", "o", "n" >> }

VarietyFallback(client) ==
    LET named == \E f \in Flavors : Contains(Lower(client.title.s), Lower(f))
        after_title == IF named THEN client.title.s
                       ELSE Replace(client.title.s, << "V", "a", "r", "i", "e", "t", "y", " ", "P", "a", "c", "k" >>,
                                    << "V", "a", "r", "i", "e", "t", "y", " ", "P", "a", "c", "k", " ", "(", "O", "r", "a", "n", "g", "e", ",", " ", "C", "h", "e", "r", "r", "y", " ", "L", "i", "m", "e", ",", " ", "W", "a", "t", "e", "r", "m", "e", "l", "o", "n", ")" >>)
    IN  Suggestion(VStr(<< "t", "i", "t", "l", "e" >>),
                   VStr(<< "T", "i", "t", "l", "e", ":", " ", "c", "l", "a", "r", "i", "f", "y", " ", "v", "a", "r", "i", "e", "t", "y", " ", "f", "l", "a", "v", "o", "r", "s" >>),
                   client.title,
                   VStr(RStripChars(Prefix(after_title, TitleLimit), SpaceChars)),
                   VStr(<< "L", "i", "s", "t", " ", "k", "e", "y", " ", "f", "l", "a", "v", "o", "r", "s", " ", "f", "o", "r", " ", "c", "l", "a", "r", "i", "t", "y", ";", " ", "k", "e", "e", "p", " ", "w", "i", "t", "h", "i", "n", " ", "l", "e", "n", "g", "t", "h", "." >>),
                   StrList(<< << "T", "I", "T", "L", "E", "_", "C", "L", "A", "R", "I", "T", "Y" >> >>))

\* not desc or desc.lower().count("scientifically formulated") >= 2
NeedsDescription(client) ==
    LET desc == StrippedDescription(client)
    IN  desc = << >> \/ CountSub(Lower(desc), << "s", "c", "i", "e", "n", "t", "i", "f", "i", "c", "a", "l", "l", "y", " ", "f", "o", "r", "m", "u", "l", "a", "t", "e", "d" >>) >= 2

\* _rule_fallbacks(client, competitor, client_findings, top_n); the
\* competitor is not read
_rule_fallbacks(client, client_findings, top_n) ==
    LET s1 == IF bullets_fail(client_findings) /\ 0 < top_n
              THEN << BulletsFallback(client) >> ELSE << >>
        s2 == IF Truthy(client.title) /\ Len(client.title.s) > TitleLimit /\ Len(s1) < top_n
              THEN Append(s1, TitleFallback(client)) ELSE s1
        s3 == IF NeedsDescription(client) /\ Len(s2) < top_n
              THEN Append(s2, DescriptionFallback(client)) ELSE s2
        s4 == IF Len(s3) < top_n /\ Truthy(client.title)
                 /\ Contains(Lower(client.title.s), << "v", "a", "r", "i", "e", "t", "y" >>)
              THEN Append(s3, VarietyFallback(client)) ELSE s3
    IN  Prefix(s4, top_n)

\* if len(recs_norm) < 3: recs_norm.extend(_rule_fallbacks(..., top_n=needed));
\* recs_norm = recs_norm[:3]
FillToThree(rs, client, client_findings) ==
    Prefix(IF Len(rs) < SuggestionCount
           THEN rs \o _rule_fallbacks(client, client_findings, SuggestionCount - Len(rs))
           ELSE rs,
           SuggestionCount)

\* _first_after(section_name)
_first_after(rs, section_name) ==
    LET hits == SelectSeq(rs, LAMBDA r : r.d.section = VStr(section_name) /\ Truthy(r.d.after))
    IN  IF hits = << >> THEN VNone ELSE hits[1].d.after

\* isinstance(x, str) and x.strip()
NonBlankStr(x) == x.t = "str" /\ Strip(x.s) # << >>

\* the mapping run_compare returns: the client, the draft seeded from the
\* suggestions, the suggestions and the client's findings; shared tells that
\* draft["bullets"] is the very list client.bullets
ResultOf(client, rs, client_findings) ==
    LET title_after   == _first_after(rs, << "t", "i", "t", "l", "e" >>)
        bullets_after == _first_after(rs, << "b", "u", "l", "l", "e", "t", "s" >>)
        desc_after    == _first_after(rs, << "d", "e", "s", "c", "r", "i", "p", "t", "i", "o", "n" >>)
    IN  [client |-> client,
         draft |-> [title |-> IF NonBlankStr(title_after) THEN title_after
                              ELSE PyOr(client.title, VStr(<< >>)),
                    bullets |-> IF Truthy(bullets_after) THEN _coerce_list(bullets_after)
                                ELSE PyOr(client.bullets, VList(<< >>)),
                    description |-> IF NonBlankStr(desc_after) THEN desc_after
                                    ELSE PyOr(client.description, VStr(<< >>))],
         shared |-> ~Truthy(bullets_after) /\ Truthy(client.bullets),
         suggestions |-> rs,
         findings |-> client_findings]

\* what a generator hands back: mappings and Recommendation objects, with a
\* section, a type or only a title, with and without an 'after' value
RawRec(section, type, title, after) ==
    VDict([section |-> section, type |-> type, title |-> title, before |-> VAbsent,
           after |-> after, rationale |-> VAbsent, references |-> VAbsent])

RawPool ==
    { RawRec(VStr(<< "t", "i", "t", "l", "e" >>), VAbsent, VAbsent, VStr(<< "N", "e", "w", " ", "t", "i", "t", "l", "e" >>)),
      RawRec(VAbsent, VStr(<< " ", "B", "u", "l", "l", "e", "t", "s" >>), VStr(<< "b" >>), VStr(<< "O", "n", "e", "\n", "-", " ", "T", "w", "o" >>)),
      RawRec(VAbsent, VAbsent, VStr(<< "I", "m", "p", "r", "o", "v", "e", " ", "d", "e", "s", "c", "r", "i", "p", "t", "i", "o", "n" >>), VStr(<<  >>)),
      RawRec(VNone, VAbsent, VStr(<< "O", "t", "h", "e", "r" >>), VStr(<< "T", "e", "x", "t" >>)) }

GeneratorOutputs == SeqsUpTo(RawPool, MaxRecs)

LongTitle == [ i \in 1..(TitleLimit + 1) |-> "x" ]

\* client items as preprocess leaves them: text fields are strings, bullets
\* a list
ClientPool ==
    { Sku(VStr(t), b, VStr(d), VNone) :
        t \in { << "P", "e", "t", " ", "B", "o", "w", "l" >>, << "B", "i", "g", " ", "V", "a", "r", "i", "e", "t", "y", " ", "P", "a", "c", "k" >>, LongTitle, <<  >> },
        b \in { VList(<< >>), StrList(<< << "G", "o", "o", "d", "." >> >>) },
        d \in { <<  >>, << "F", "i", "n", "e", "." >>, << "S", "c", "i", "e", "n", "t", "i", "f", "i", "c", "a", "l", "l", "y", " ", "f", "o", "r", "m", "u", "l", "a", "t", "e", "d", ".", " ", "s", "c", "i", "e", "n", "t", "i", "f", "i", "c", "a", "l", "l", "y", " ", "f", "o", "r", "m", "u", "l", "a", "t", "e", "d" >> } }

\* the rules run_compare selected
PolicyRules ==
    << MkRule(VStr(<< "B", "1" >>), VStr(<< "b", "u", "l", "l", "e", "t", "s" >>), VStr(<< "n", "o", "_", "e", "n", "d", "i", "n", "g", "_", "p", "u", "n", "c", "t" >>), VAbsent,
              VStr(<< "w", "a", "r", "n", "i", "n", "g" >>), VStr(<< "n", "o", " ", "e", "n", "d", " ", "p", "u", "n", "c", "t", "u", "a", "t", "i", "o", "n" >>), VStr(<< "p", "a" >>), VAbsent),
       MkRule(VStr(<< "T", "1" >>), VStr(<< "t", "i", "t", "l", "e" >>), VStr(<< "m", "a", "x", "_", "l", "e", "n", "g", "t", "h" >>), ValueParam(VInt(TitleLimit)),
              VStr(<< "e", "r", "r", "o", "r" >>), VAbsent, VStr(<< "p", "a" >>), VAbsent) >>

\* run_compare has loaded the client and selected the rules
InitCompare ==
    /\ NoRegistry
    /\ sku \in ClientPool
    /\ rules = PolicyRules
    /\ idx = 1
    /\ findings = << >>
    /\ pc = "direct"
    /\ exc = "none"
    /\ NoCats
    /\ NoOther

\* recs_raw = suggest_edits_llm(...); recs_norm = _normalize_recs(recs_raw);
\* the suggestions without an 'after' value are dropped
Suggest ==
    /\ pc = "done"
    /\ recs_raw' \in GeneratorOutputs
    /\ recs_norm' = WithAfter(_normalize_recs(recs_raw'))
    /\ pc' = "suggested"
    /\ UNCHANGED << packs, market, categories, sel, sku, rules, idx, findings, exc >>
    /\ UNCHANGED << catVars, heapVars, loadVars, callVars >>
    /\ UNCHANGED << result, state, blists, log, comp_find, table >>

\* the fallbacks are added and the list is cut to three
Fallbacks ==
    /\ pc = "suggested"
    /\ recs_norm' = FillToThree(recs_norm, sku, findings)
    /\ pc' = "filled"
    /\ UNCHANGED << packs, market, categories, sel, sku, rules, idx, findings, exc >>
    /\ UNCHANGED << catVars, heapVars, loadVars, callVars >>
    /\ UNCHANGED << recs_raw, result, state, blists, log, comp_find, table >>

\* the draft is seeded and the result returned
ReturnCompare ==
    /\ pc = "filled"
    /\ result' = ResultOf(sku, recs_norm, findings)
    /\ pc' = "returned"
    /\ UNCHANGED << packs, market, categories, sel, sku, rules, idx, findings, exc >>
    /\ UNCHANGED << catVars, heapVars, loadVars, callVars >>
    /\ UNCHANGED << recs_raw, recs_norm, state, blists, log, comp_find, table >>

NextCompare == NextValidate \/ Suggest \/ Fallbacks \/ ReturnCompare

SpecCompare == InitCompare /\ [][NextCompare]_vars

\* ------------------------------------------------------------------------
\* The chat session (cli_chat.py)
\* ------------------------------------------------------------------------

\* most commands read in one session
MaxCommands == 3

\* run_compare as one call: the findings of the client, then the suggestions
\* and the draft
run_compare(client, raw) ==
    LET client_find == validate_with_rules(client, PolicyRules).v
    IN  ResultOf(client, FillToThree(WithAfter(_normalize_recs(raw)), client, client_find),
                 client_find)

ChatClients ==
    { Sku(VStr(<< "P", "e", "t", " ", "B", "o", "w", "l" >>), StrList(<< << "G", "o", "o", "d", "." >> >>), VStr(<< "F", "i", "n", "e", "." >>), VNone),
      Sku(VStr(<< "B", "i", "g", " ", "V", "a", "r", "i", "e", "t", "y", " ", "P", "a", "c", "k" >>), VList(<< >>), VStr(<<  >>), VNone) }

ChatGenerator ==
    { << >>,
      << RawRec(VStr(<< "t", "i", "t", "l", "e" >>), VAbsent, VAbsent, VStr(<< "N", "e", "w", " ", "t", "i", "t", "l", "e" >>)),
         RawRec(VAbsent, VStr(<< " ", "B", "u", "l", "l", "e", "t", "s" >>), VStr(<< "b" >>), VStr(<< "O", "n", "e", "\n", "-", " ", "T", "w", "o" >>)) >> }

\* the results run_compare can hand to the session
CompareResults == { run_compare(c, raw) : c \in ChatClients, raw \in ChatGenerator }

\* a slip: the approval kept over a new comparison
store_result_keep(st, res) ==
    [st EXCEPT !.results = [client |-> [title |-> res.client.title, bullets |-> 1,
                                        description |-> res.client.description],
                            draft |-> [title |-> res.draft.title,
                                       bullets |-> IF res.shared THEN 1 ELSE 2,
                                       description |-> res.draft.description],
                            suggestions |-> res.suggestions,
                            findings |-> res.findings]]

\* state["results"] = result; state["approved"] = False.  The bullet lists
\* of the result are held by address: the draft's is the client's when
\* run_compare seeded the draft with client.bullets itself
store_result(st, res) ==
    [results |-> [client |-> [title |-> res.client.title, bullets |-> 1,
                              description |-> res.client.description],
                  draft |-> [title |-> res.draft.title,
                             bullets |-> IF res.shared THEN 1 ELSE 2,
                             description |-> res.draft.description],
                  suggestions |-> res.suggestions,
                  findings |-> res.findings],
     approved |-> FALSE]

ResultLists(res) ==
    IF res.shared THEN << res.client.bullets >> ELSE << res.client.bullets, res.draft.bullets >>

\* the client of the stored result, its bullets read through their address
StoredClient ==
    [title |-> state.results.client.title,
     bullets |-> blists[state.results.client.bullets],
     description |-> state.results.client.description]

\* the draft of the stored result as an item: the client's other fields kept
DraftItem ==
    Sku(state.results.draft.title, blists[state.results.draft.bullets],
        state.results.draft.description, VNone)

Entry(cmd, stored) == [cmd |-> cmd, stored |-> stored]

\* not state["results"]
NoResults == state.results = VNone

InitChat ==
    /\ NoRegistry
    /\ sku = Sku(VNone, VNone, VNone, VNone)
    /\ rules = << >>
    /\ idx = 1
    /\ findings = << >>
    /\ pc = "prompt"
    /\ exc = "none"
    /\ NoCats
    /\ NoOther

\* what a command leaves alone besides the session
ChatFrame ==
    /\ UNCHANGED << packs, market, categories, sel, sku, rules, idx, findings >>
    /\ UNCHANGED << catVars, heapVars, loadVars, callVars >>
    /\ UNCHANGED << recs_raw, recs_norm, result, comp_find, table >>

Reading == pc = "prompt" /\ Len(log) < MaxCommands

\* quit / exit, or the end of the input
CmdQuit ==
    /\ Reading
    /\ pc' = "ended"
    /\ log' = Append(log, Entry("quit", VNone))
    /\ UNCHANGED << state, blists, exc >>
    /\ ChatFrame

\* compare <client_id> <competitor_id>
CmdCompare ==
    /\ Reading
    /\ \E res \in CompareResults :
          /\ state' = store_result(state, res)
          /\ blists' = ResultLists(res)
          /\ log' = Append(log, Entry("compare",
                                      [title |-> res.client.title, bullets |-> res.client.bullets,
                                       description |-> res.client.description]))
    /\ UNCHANGED << pc, exc >>
    /\ ChatFrame

\* compare with an id missing (parts[2]), or with an id run_compare does not
\* find: the exception ends the program
CmdCompareRaises ==
    /\ Reading
    /\ \E e \in { "IndexError", "ValueError" } : exc' = e
    /\ pc' = "crashed"
    /\ log' = Append(log, Entry("compare failed", VNone))
    /\ UNCHANGED << state, blists >>
    /\ ChatFrame

\* show report, show draft, final, help, an unknown command: output only;
\* before the first compare every command but compare ends here as well
CmdShow ==
    /\ Reading
    /\ \E cmd \in { "show report", "show draft", "final", "help", "unknown" } :
          log' = Append(log, Entry(cmd, VNone))
    /\ UNCHANGED << state, blists, pc, exc >>
    /\ ChatFrame

\* bullets[idx] = text.strip() after the list was padded to idx + 1 entries;
\* an exception (int() of idx_str, an index before the list) leaves the list
EditBullet(bullets, idx_str, text) ==
    LET n == IntOf(VStr(Strip(idx_str)))
    IN  IF n.k = "raise" THEN bullets
        ELSE LET i == n.v - 1
                 at == IF i < 0 THEN Len(bullets) + i + 1 ELSE i + 1
                 padded == bullets \o [ k \in 1..(at - Len(bullets)) |-> VStr(<< >>) ]
             IN  IF at < 1 THEN bullets
                 ELSE [padded EXCEPT ![at] = VStr(Strip(text))]

\* edit bullet <N>: <text>
CmdEditBullet ==
    /\ Reading
    /\ \E idx_str \in { << "0" >>, << " ", "2" >>, << "x" >> } :
          /\ log' = Append(log, Entry("edit bullet", VNone))
          /\ IF NoResults THEN UNCHANGED blists
             ELSE LET a == state.results.draft.bullets
                  IN  blists' = [blists EXCEPT
                                   ![a] = VList(EditBullet(blists[a].l, idx_str, << " ", "N", "e", "w", ".", " " >>))]
    /\ UNCHANGED << state, pc, exc >>
    /\ ChatFrame

\* title: <new title>
CmdTitle ==
    /\ Reading
    /\ log' = Append(log, Entry("title", VNone))
    /\ state' = IF NoResults THEN state
                ELSE [state EXCEPT !.results.draft.title = VStr(Strip(<< " ", "B", "o", "w", "l", " " >>))]
    /\ UNCHANGED << blists, pc, exc >>
    /\ ChatFrame

\* description: <new description>
CmdDescription ==
    /\ Reading
    /\ log' = Append(log, Entry("description", VNone))
    /\ state' = IF NoResults THEN state
                ELSE [state EXCEPT !.results.draft.description = VStr(Strip(<< "H", "o", "l", "d", "s", " ", "w", "a", "t", "e", "r" >>))]
    /\ UNCHANGED << blists, pc, exc >>
    /\ ChatFrame

\* bullets: followed by the lines of read_multiline; the draft gets a new list
CmdBullets ==
    /\ Reading
    /\ log' = Append(log, Entry("bullets", VNone))
    /\ IF NoResults THEN UNCHANGED << state, blists >>
       ELSE /\ blists' = Append(blists, _coerce_list(VStr(<< "-", " ", "A", "\n", "B", "." >>)))
            /\ state' = [state EXCEPT !.results.draft.bullets = Len(blists) + 1]
    /\ UNCHANGED << pc, exc >>
    /\ ChatFrame

\* client = state["results"]["client"]; client.title = draft["title"];
\* client.bullets = draft["bullets"]; client.description = draft["description"]
ClientEdited(client, draft) ==
    [client EXCEPT !.title = draft.title, !.bullets = draft.bullets,
                   !.description = draft.description]

\* validate: the draft is put into the client and the client is checked
CmdValidate ==
    /\ Reading
    /\ log' = Append(log, Entry("validate", VNone))
    /\ IF NoResults THEN UNCHANGED << state, pc, exc >>
       ELSE LET out == validate_with_rules(DraftItem, PolicyRules)
            IN  /\ state' = [state EXCEPT !.results.client =
                                ClientEdited(state.results.client, state.results.draft)]
                /\ pc' = IF out.k = "raise" THEN "crashed" ELSE pc
                /\ exc' = IF out.k = "raise" THEN out.exc ELSE exc
    /\ UNCHANGED blists
    /\ ChatFrame

\* approve
CmdApprove ==
    /\ Reading
    /\ log' = Append(log, Entry("approve", VNone))
    /\ state' = IF NoResults THEN state ELSE [state EXCEPT !.approved = TRUE]
    /\ UNCHANGED << blists, pc, exc >>
    /\ ChatFrame

NextChat ==
    \/ CmdQuit
    \/ CmdCompare
    \/ CmdCompareRaises
    \/ CmdShow
    \/ CmdEditBullet
    \/ CmdTitle
    \/ CmdDescription
    \/ CmdBullets
    \/ CmdValidate
    \/ CmdApprove

SpecChat == InitChat /\ [][NextChat]_vars

\* ------------------------------------------------------------------------
\* Properties
\* ------------------------------------------------------------------------

\* the entries of rules the loop of validate_with_rules has gone through
Processed == SubSeq(rules, 1, idx - 1)

SectionNames == { VStr(s) : s \in Sections }

TypeNames == { VStr(CheckTypes[i]) : i \in DOMAIN CheckTypes }

\* a rule with a known section and a known type
Counted(r) == r.d.section \in SectionNames /\ r.d.type \in TypeNames

\* the processed rules that are to have a finding, in input order
Kept == SelectSeq(Processed, Counted)

IsSuffix(suf, s) ==
    Len(suf) <= Len(s) /\ SubSeq(s, Len(s) - Len(suf) + 1, Len(s)) = suf

\* C1: the findings of validate_with_rules are, position by position, those of
\* the input rules with a known section and a known type, in input order; a
\* rule with an unknown section or type has no finding; a returned list
\* covers the whole input.
C1_FindingsFollowRuleOrder ==
    /\ Len(findings) = Len(Kept)
    /\ \A k \in DOMAIN findings :
          /\ findings[k].section = Kept[k].d.section
          /\ IsSuffix(Kept[k].d.id.s, findings[k].rule_id.s)
    /\ pc = "done" => idx = Len(rules) + 1

\* a returned list with a skipped rule and two findings of different sections
C1_Witness ==
    /\ pc = "done"
    /\ Len(findings) >= 2
    /\ Len(findings) < Len(rules)
    /\ findings[1].section # findings[2].section

\* every (pack, rule) position of the pack list
SourceOcc == UNION { { << i, j >> : j \in DOMAIN packs[i].d.rules.l } : i \in DOMAIN packs }

SourceRule(o) == packs[o[1]].d.rules.l[o[2]]

\* a rule without the policy_id the registry attaches
StripPid(r) == [r EXCEPT !.d.policy_id = VAbsent]

InOutput(r) == \E k \in DOMAIN sel.v : StripPid(sel.v[k]) = StripPid(r)

\* scope.market when it is a list, else the empty list
MarketList(r) ==
    IF r.d.scope.t = "dict" /\ r.d.scope.d.market.t = "list"
    THEN r.d.scope.d.market.l
    ELSE << >>

\* m is a member of l as a whole string, case kept
ExactMember(m, l) == \E i \in DOMAIN l : l[i].t = "str" /\ l[i].s = m.s

\* scope.categories, None when the scope or the key is absent
RuleCats(r) == IF r.d.scope.t = "dict" THEN Get(r.d.scope, "categories") ELSE VNone

\* C2: select_rules returns no rule whose scope.market is a non-empty list
\* without the requested market as an exact member; a rule whose scope or
\* scope.market is absent or empty is returned whenever its category predicate
\* holds, whatever the requested market.
C2_MarketScopeIsExact ==
    sel.k = "ok" =>
        /\ \A k \in DOMAIN sel.v :
              MarketList(sel.v[k]) # << >> => ExactMember(market, MarketList(sel.v[k]))
        /\ \A o \in SourceOcc :
              (/\ MarketList(SourceRule(o)) = << >>
               /\ _cat_match(RuleCats(SourceRule(o)), categories))
              => InOutput(SourceRule(o))

\* a selection that keeps a market-scoped rule, drops another one, and keeps a
\* rule without market scope
C2_Witness ==
    /\ sel.k = "ok"
    /\ \E k \in DOMAIN sel.v : MarketList(sel.v[k]) # << >>
    /\ \E o \in SourceOcc :
          /\ MarketList(SourceRule(o)) # << >>
          /\ ~ExactMember(market, MarketList(SourceRule(o)))
          /\ ~InOutput(SourceRule(o))
    /\ \E o \in SourceOcc : MarketList(SourceRule(o)) = << >> /\ InOutput(SourceRule(o))

MarketPredicate(r) == MarketList(r) = << >> \/ ExactMember(market, MarketList(r))

CategoryPredicate(r) ==
    IF ~Truthy(categories) \/ ~Truthy(RuleCats(r))
    THEN TRUE
    ELSE _cat_match(RuleCats(r), categories)

\* C3: a rule is in the output of select_rules exactly as often as it occurs
\* in the packs with both its market predicate and its category predicate
\* true; the category predicate is true when the requested categories are
\* empty and when the rule's scope.categories is absent or empty.
C3_SelectedIffBothPredicates ==
    sel.k = "ok" =>
        \A o \in SourceOcc :
            LET x == StripPid(SourceRule(o))
            IN  Cardinality({ k \in DOMAIN sel.v : StripPid(sel.v[k]) = x })
                = Cardinality({ q \in SourceOcc :
                                  /\ StripPid(SourceRule(q)) = x
                                  /\ MarketPredicate(SourceRule(q))
                                  /\ CategoryPredicate(SourceRule(q)) })

\* categories requested; one category-scoped rule kept, one dropped by its
\* categories alone, one dropped by its market
C3_Witness ==
    /\ sel.k = "ok"
    /\ Truthy(categories)
    /\ \E o \in SourceOcc : Truthy(RuleCats(SourceRule(o))) /\ InOutput(SourceRule(o))
    /\ \E o \in SourceOcc :
          /\ MarketPredicate(SourceRule(o))
          /\ ~CategoryPredicate(SourceRule(o))
          /\ ~InOutput(SourceRule(o))
    /\ \E o \in SourceOcc : ~MarketPredicate(SourceRule(o)) /\ ~InOutput(SourceRule(o))

\* equal, or one a substring of the other
Overlap(a, b) == a = b \/ Contains(a, b) \/ Contains(b, a)

BothListsNonEmpty == Truthy(rule_cats) /\ Truthy(want_cats)

C5_Symmetric ==
    (cat_fwd # "unset" /\ cat_rev # "unset" /\ BothListsNonEmpty) => cat_fwd = cat_rev

ValueTypes == { VStr(<< "m", "a", "x", "_", "l", "e", "n", "g", "t", "h" >>), VStr(<< "m", "i", "n", "_", "l", "e", "n", "g", "t", "h" >>), VStr(<< "m", "a", "x", "_", "c", "o", "u", "n", "t" >>),
                VStr(<< "m", "i", "n", "_", "c", "o", "u", "n", "t" >>) }

PatternTypes == { VStr(<< "f", "o", "r", "b", "i", "d", "d", "e", "n", "_", "r", "e", "g", "e", "x" >>), VStr(<< "r", "e", "q", "u", "i", "r", "e", "d", "_", "r", "e", "g", "e", "x" >>),
                  VStr(<< "f", "o", "r", "b", "i", "d", "d", "e", "n", "_", "r", "e", "g", "e", "x", "_", "e", "a", "c", "h" >>) }

\* the rule's params mapping (the empty one when the rule has no params) lacks key
ParamsLack(r, key) ==
    r.d.params = VAbsent \/ (r.d.params.t = "dict" /\ r.d.params.d[key] = VAbsent)

\* the loop has gone through the first rule, or was ended by it
FirstRuleStepped == pc = "raised" \/ (pc \in {"validating", "done"} /\ idx >= 2)

PassedAlone == pc # "raised" /\ Len(findings) = 1 /\ findings[1].passed = TRUE

\* C6: a rule of a type that needs "value" (or "pattern") whose params lack it
\* yields one finding, passed, for every section value of every item.
C6_MissingParamPasses ==
    \A r \in { rules[i] : i \in DOMAIN rules \cap {1} } :
        (/\ FirstRuleStepped
         /\ r.d.section \in SectionNames
         /\ \/ r.d.type \in ValueTypes /\ ParamsLack(r, "value")
            \/ r.d.type \in PatternTypes /\ ParamsLack(r, "pattern"))
        => PassedAlone

\* max_length without "value" against a title of eight characters
C6_Witness ==
    /\ pc = "done"
    /\ rules[1].d.type = VStr(<< "m", "a", "x", "_", "l", "e", "n", "g", "t", "h" >>)
    /\ rules[1].d.section = VStr(<< "t", "i", "t", "l", "e" >>)
    /\ rules[1].d.params = EmptyParams
    /\ sku.title = VStr(<< "P", "e", "t", " ", "B", "o", "w", "l" >>)
    /\ PassedAlone

StringTypes == { VStr(<< "m", "a", "x", "_", "l", "e", "n", "g", "t", "h" >>), VStr(<< "m", "i", "n", "_", "l", "e", "n", "g", "t", "h" >>), VStr(<< "f", "o", "r", "b", "i", "d", "d", "e", "n", "_", "r", "e", "g", "e", "x" >>),
                 VStr(<< "r", "e", "q", "u", "i", "r", "e", "d", "_", "r", "e", "g", "e", "x" >>), VStr(<< "n", "o", "_", "u", "r", "l", "s", "_", "e", "m", "a", "i", "l", "s" >>) }

ListTypes == { VStr(<< "m", "a", "x", "_", "c", "o", "u", "n", "t" >>), VStr(<< "m", "i", "n", "_", "c", "o", "u", "n", "t" >>), VStr(<< "f", "o", "r", "b", "i", "d", "d", "e", "n", "_", "r", "e", "g", "e", "x", "_", "e", "a", "c", "h" >>),
               VStr(<< "n", "o", "_", "e", "n", "d", "i", "n", "g", "_", "p", "u", "n", "c", "t" >>), VStr(<< "b", "u", "l", "l", "e", "t", "s", "_", "c", "a", "p", "i", "t", "a", "l", "i", "z", "e", "d" >>),
               VStr(<< "b", "u", "l", "l", "e", "t", "s", "_", "n", "u", "m", "b", "e", "r", "s", "_", "a", "s", "_", "n", "u", "m", "e", "r", "a", "l", "s" >>) }

StringSections == { VStr(<< "t", "i", "t", "l", "e" >>), VStr(<< "d", "e", "s", "c", "r", "i", "p", "t", "i", "o", "n" >>) }

ListSections == { VStr(<< "b", "u", "l", "l", "e", "t", "s" >>), VStr(<< "i", "m", "a", "g", "e", "s" >>) }

WrongShape(r) ==
    \/ r.d.type \in StringTypes /\ r.d.section \in ListSections
    \/ r.d.type \in ListTypes /\ r.d.section \in StringSections

\* C7: a string-oriented rule that targets bullets or images, or a
\* list-oriented rule that targets title or description, yields one finding,
\* passed, without raising, whatever its params are.
C7_WrongShapePasses ==
    \A r \in { rules[i] : i \in DOMAIN rules \cap {1} } :
        (FirstRuleStepped /\ WrongShape(r)) => PassedAlone

\* max_count with value 0 against a non-empty title; the params may as well
\* be None or hold a pattern re rejects
C7_Witness ==
    /\ pc = "done"
    /\ rules[1].d.type = VStr(<< "m", "a", "x", "_", "c", "o", "u", "n", "t" >>)
    /\ rules[1].d.section = VStr(<< "t", "i", "t", "l", "e" >>)
    /\ rules[1].d.params = ValueParam(VInt(0))
    /\ sku.title = VStr(<< "P", "e", "t", " ", "B", "o", "w", "l" >>)
    /\ PassedAlone

\* C8: load, selection and evaluation complete normally on any input, and
\* malformed input only makes the findings fewer than the rules.
C8_NeverRaises ==
    /\ pc # "raised"
    /\ pc = "done" => Len(findings) <= Len(rules)

\* the rule carries a policy_id: a non-empty string
Carries(r) == r.d.policy_id.t = "str" /\ r.d.policy_id.s # << >>

\* the rule's message, or its id when the message is empty
MessageOrId(r) ==
    IF r.d.message.t = "str" /\ r.d.message.s # << >> THEN r.d.message.s ELSE r.d.id.s

\* C9: the finding of an evaluated rule has rule_id "<policy_id>:<id>" and
\* message "<policy_id>:<id> - " followed by the message (or the id when the
\* message is empty) when the rule carries a policy_id, and the bare id and
\* the message (or the id) when it does not.
C9_Namespacing ==
    \A k \in DOMAIN findings \cap DOMAIN Kept :
        LET r == Kept[k]
        IN  IF Carries(r)
            THEN /\ findings[k].rule_id = VStr(r.d.policy_id.s \o << ":" >> \o r.d.id.s)
                 /\ findings[k].message =
                        VStr(r.d.policy_id.s \o << ":" >> \o r.d.id.s \o << " ", EnDashChar, " " >> \o MessageOrId(r))
            ELSE /\ findings[k].rule_id = r.d.id
                 /\ findings[k].message = VStr(MessageOrId(r))

\* a returned list with a namespaced finding of a rule without message and a
\* finding of a rule without policy_id
C9_Witness ==
    /\ pc = "done"
    /\ Len(findings) = Len(Kept)
    /\ \E k \in DOMAIN findings : Carries(Kept[k]) /\ MessageOrId(Kept[k]) = Kept[k].d.id.s
    /\ \E k \in DOMAIN findings : ~Carries(Kept[k])

SeverityNames == { VStr(<< "i", "n", "f", "o" >>), VStr(<< "w", "a", "r", "n", "i", "n", "g" >>), VStr(<< "e", "r", "r", "o", "r" >>) }

\* C10: every finding's severity is info, warning or error: the rule's own
\* when that is one of the three, warning when it is absent or anything else.
C10_SeverityNormalised ==
    \A k \in DOMAIN findings \cap DOMAIN Kept :
        findings[k].severity =
            IF Kept[k].d.severity \in SeverityNames THEN Kept[k].d.severity ELSE DefaultSeverity

\* the (pack, rule) positions from pack i on, in pack order and, within a
\* pack, rule order
RECURSIVE OccFrom(_)
OccFrom(i) ==
    IF i > Len(packs) THEN << >>
    ELSE [ j \in DOMAIN packs[i].d.rules.l |-> << i, j >> ] \o OccFrom(i + 1)

PassesBoth(o) == MarketPredicate(SourceRule(o)) /\ CategoryPredicate(SourceRule(o))

\* the positions whose rule passes both predicates, in that order
Passing == SelectSeq(OccFrom(1), PassesBoth)

\* the policy_id of the meta of pack i, the sentinel when the meta has none
ExpectedPolicy(i) ==
    IF packs[i].d.meta.t = "dict" /\ packs[i].d.meta.d.policy_id # VAbsent
    THEN packs[i].d.meta.d.policy_id
    ELSE VStr(<< "u", "n", "k", "n", "o", "w", "n", "_", "p", "o", "l", "i", "c", "y" >>)

\* C11: the k-th rule returned by select_rules carries the policy_id of the
\* meta of the pack of the k-th passing position, or "unknown_policy" when
\* that meta has no policy_id, whatever policy_id the source rule stores; its
\* other fields are those of the source rule.
C11_AnnotatedWithPackPolicy ==
    sel.k = "ok" =>
        LET from == Passing
        IN  /\ Len(sel.v) = Len(from)
            /\ \A k \in DOMAIN sel.v :
                  /\ sel.v[k].d.policy_id = ExpectedPolicy(from[k][1])
                  /\ \A f \in DOMAIN sel.v[k].d \ {"policy_id"} :
                        sel.v[k].d[f] = SourceRule(from[k]).d[f]

\* a selection with a rule annotated by its pack's policy_id, and a rule that
\* stored a policy_id of its own and now carries the sentinel
C11_Witness ==
    /\ sel.k = "ok"
    /\ LET from == Passing
       IN  /\ \E k \in DOMAIN sel.v :
                 /\ packs[from[k][1]].d.meta.t = "dict"
                 /\ sel.v[k].d.policy_id = packs[from[k][1]].d.meta.d.policy_id
                 /\ sel.v[k].d.policy_id.t = "str"
           /\ \E k \in DOMAIN sel.v :
                 /\ SourceRule(from[k]).d.policy_id.t = "str"
                 /\ sel.v[k].d.policy_id = VStr(<< "u", "n", "k", "n", "o", "w", "n", "_", "p", "o", "l", "i", "c", "y" >>)
                 /\ sel.v[k].d.policy_id # SourceRule(from[k]).d.policy_id

\* C13: select_rules returns one entry per (pack, rule) position passing both
\* predicates, in pack order and, within a pack, rule order; nothing is
\* deduplicated, so an id found in two selected packs is returned twice.
C13_FlatOrderedNoDedup ==
    sel.k = "ok" =>
        LET from == Passing
        IN  /\ Len(sel.v) = Cardinality({ o \in SourceOcc : PassesBoth(o) })
            /\ [ k \in DOMAIN sel.v |-> StripPid(sel.v[k]) ]
                  = [ k \in DOMAIN from |-> StripPid(SourceRule(from[k])) ]
            /\ \A k, m \in DOMAIN from :
                  k < m => \/ from[k][1] < from[m][1]
                           \/ from[k][1] = from[m][1] /\ from[k][2] < from[m][2]

\* two packs selected, the same id returned once for each, and a rule of the
\* first pack dropped in between
C13_Witness ==
    /\ sel.k = "ok"
    /\ Len(packs) = 2
    /\ \E k, m \in DOMAIN sel.v :
          /\ k < m
          /\ sel.v[k].d.id = sel.v[m].d.id
          /\ LET from == Passing IN from[k][1] = 1 /\ from[m][1] = 2
    /\ Len(sel.v) < Cardinality(SourceOcc)
    /\ Len(sel.v) >= 3

\* the addresses of the packs' own rule objects
SourceAddrs == 1..Len(RuleObjects(packs))

\* every list select_rules has built: the returned ones and the one under way
BuiltLists ==
    [ c \in DOMAIN returned |-> returned[c].sel ]
        \o (IF pc \in {"sel_loop", "raised"} THEN << sel_out >> ELSE << >>)

\* C12: select_rules leaves every source rule as it was (none gains or changes
\* a policy_id); every entry of every list it builds is an object of its own,
\* neither a source rule nor an entry built before; and each returned list
\* still reads, after any later selection, as one selection over the packs
\* as first loaded.
C12_InputUntouched ==
    /\ \A k \in SourceAddrs : heap[k] = RuleObjects(packs)[k]
    /\ \A c \in DOMAIN BuiltLists : \A j \in DOMAIN BuiltLists[c] :
          /\ BuiltLists[c][j] \notin SourceAddrs
          /\ \A d \in DOMAIN BuiltLists : \A m \in DOMAIN BuiltLists[d] :
                BuiltLists[c][j] = BuiltLists[d][m] => (c = d /\ j = m)
    /\ \A c \in DOMAIN returned :
          [ j \in DOMAIN returned[c].sel |-> heap[returned[c].sel[j]] ]
             = select_rules(packs, returned[c].market, returned[c].categories).v

\* two selections with different requests have returned different, non-empty
\* lists, the first of them annotating a rule that stores no policy_id
C12_Witness ==
    /\ Len(returned) = 2
    /\ returned[1].market # returned[2].market
    /\ returned[1].categories # returned[2].categories
    /\ returned[1].sel # << >>
    /\ returned[2].sel # << >>
    /\ Len(returned[1].sel) # Len(returned[2].sel)
    /\ \E k \in SourceAddrs :
          /\ heap[k].d.policy_id = VAbsent
          /\ \E j \in DOMAIN returned[1].sel :
                StripPid(heap[returned[1].sel[j]]) = heap[k]

\* a subdirectory of the root that contains a rules definition file
HasRules(d) == d.is_dir /\ d.rules.f \in {"bad", "doc"}

\* the entries the loop of load_all_rules has gone through
Visited == SubSeq(root, 1, dir_i - 1)

\* the visited subdirectories with a rules definition file: VisitedWithRules[k]
\* is the directory of packs[k]
VisitedWithRules == SelectSeq(Visited, HasRules)

LoadEnded == pc \in {"loaded", "raised"}

\* what load_all_rules handed back: its packs or its exception
LoadOutcome == IF pc = "loaded" THEN Ok(packs) ELSE Raise(exc)

\* C14: load_all_rules makes exactly one pack for each subdirectory that
\* contains a rules definition file and none for a subdirectory without one or
\* for an entry that is not a directory; an entry without a rules file never
\* raises, and the outcome (packs or exception) is the one of the root
\* without such entries.
C14_OnePackPerRulesFile ==
    /\ Len(packs) = Len(VisitedWithRules)
    /\ \A k \in DOMAIN packs : load_one(VisitedWithRules[k]) = Ok(<< packs[k] >>)
    /\ pc = "loaded" => Len(packs) = Cardinality({ i \in DOMAIN root : HasRules(root[i]) })
    /\ pc = "raised" => HasRules(root[dir_i])
    /\ LoadEnded => LoadOutcome = load_all_rules(SelectSeq(root, HasRules))

\* a directory with a metadata file but no rules file, visited first, and a
\* directory with a rules file: one pack, with rules
C14_Witness ==
    /\ pc = "loaded"
    /\ Len(root) = 2
    /\ root[1].is_dir
    /\ root[1].rules = Missing
    /\ root[1].meta # Missing
    /\ Len(packs) = 1
    /\ packs[1].d.rules.l # << >>

\* a definition file that failed to parse, read as the empty mapping
Repair(file) == IF file = Unparseable THEN Parsed(EmptyDoc) ELSE file

Repaired ==
    [ i \in DOMAIN root |-> [root[i] EXCEPT !.rules = Repair(@), !.meta = Repair(@)] ]

\* a subdirectory with a rules file, one of whose definition files is unparseable
Malformed(d) == HasRules(d) /\ (d.rules = Unparseable \/ d.meta = Unparseable)

WellFormed(d) == ~Malformed(d)

\* the packs of the subdirectories that are not malformed, from the k-th on
RECURSIVE PacksOfOthers(_)
PacksOfOthers(k) ==
    IF k > Len(packs) THEN << >>
    ELSE (IF Malformed(VisitedWithRules[k]) THEN << >> ELSE << packs[k] >>)
         \o PacksOfOthers(k + 1)

\* C15: an unparseable definition file is read as an empty mapping: the
\* outcome of load_all_rules is the one for the root with every such file
\* replaced by {}; a directory whose definition files are all unparseable or
\* missing never raises; a directory with an unparseable rules definition
\* gives a pack with zero rules; and the packs of the other directories are
\* those of the root without the malformed directories.
C15_UnparseableIsEmptyMapping ==
    /\ LoadEnded => LoadOutcome = load_all_rules(Repaired)
    /\ pc = "raised" => root[dir_i].rules.f = "doc" \/ root[dir_i].meta.f = "doc"
    /\ \A k \in DOMAIN packs :
          VisitedWithRules[k].rules = Unparseable => packs[k].d.rules = VList(<< >>)
    /\ pc = "loaded" =>
          Ok(PacksOfOthers(1)) = load_all_rules(SelectSeq(root, WellFormed))

\* a directory with an unparseable rules definition, visited first, gave a
\* pack with zero rules; the directory after it gave a pack with rules
C15_Witness ==
    /\ pc = "loaded"
    /\ Len(packs) = 2
    /\ root[1].rules = Unparseable
    /\ packs[1].d.rules = VList(<< >>)
    /\ ~Malformed(root[2])
    /\ packs[2].d.rules.l # << >>

\* the meta mapping a definition file supplies; {} when it supplies none
MetaOfFile(file) ==
    IF file.f = "doc" /\ file.v.t = "dict" /\ file.v.d.meta.t = "dict"
    THEN file.v.d.meta
    ELSE MetaFull(VAbsent, VAbsent, VAbsent)

\* the value the definitions of directory d give for a meta key: the metadata
\* definition's when it holds the key, else the rules definition's
GivenKey(d, key) ==
    IF MetaOfFile(d.meta).d[key] # VAbsent
    THEN MetaOfFile(d.meta).d[key]
    ELSE MetaOfFile(d.rules).d[key]

\* C16: every pack of load_all_rules has a non-empty meta.policy_id: the one
\* its definitions give when that is present and non-empty, else the name of
\* its subdirectory, whatever the on-disk shape.
C16_PolicyIdNeverEmpty ==
    \A k \in DOMAIN packs :
        /\ Truthy(packs[k].d.meta.d.policy_id)
        /\ packs[k].d.meta.d.policy_id
             = IF Truthy(GivenKey(VisitedWithRules[k], "policy_id"))
               THEN GivenKey(VisitedWithRules[k], "policy_id")
               ELSE VStr(VisitedWithRules[k].name)

\* one pack keeps the policy_id its definitions give, another, whose
\* definitions give the empty string, has the name of its directory
C16_Witness ==
    /\ pc = "loaded"
    /\ \E k \in DOMAIN packs :
          /\ GivenKey(VisitedWithRules[k], "policy_id") = VStr(<< >>)
          /\ packs[k].d.meta.d.policy_id = VStr(VisitedWithRules[k].name)
    /\ \E k \in DOMAIN packs :
          /\ packs[k].d.meta.d.policy_id = GivenKey(VisitedWithRules[k], "policy_id")
          /\ packs[k].d.meta.d.policy_id # VStr(VisitedWithRules[k].name)

IsMappingFile(file) == file.f = "doc" /\ file.v.t = "dict"

IsListFile(file) == file.f = "doc" /\ file.v.t = "list" /\ file.v.l # << >>

\* C17: for a rules definition that is a mapping, each meta key of the pack
\* has the metadata definition's value when that definition holds the key and
\* the rules definition's value otherwise; for a rules definition that is a
\* bare list, the pack's rules are that list and its meta keys are the
\* metadata definition's alone. (policy_id: unless the fallback of C16 applies.)
C17_MetaOverlay ==
    \A k \in DOMAIN packs :
        LET d == VisitedWithRules[k]
        IN  /\ IsMappingFile(d.rules) =>
                  \A key \in DOMAIN packs[k].d.meta.d :
                      (key = "policy_id" => Truthy(GivenKey(d, key))) =>
                          packs[k].d.meta.d[key]
                            = IF MetaOfFile(d.meta).d[key] # VAbsent
                              THEN MetaOfFile(d.meta).d[key]
                              ELSE MetaOfFile(d.rules).d[key]
            /\ IsListFile(d.rules) =>
                  /\ packs[k].d.rules = d.rules.v
                  /\ \A key \in DOMAIN packs[k].d.meta.d :
                        (key = "policy_id" => Truthy(MetaOfFile(d.meta).d[key])) =>
                            packs[k].d.meta.d[key] = MetaOfFile(d.meta).d[key]

\* a pack from two definitions that both give a policy_id: the metadata
\* definition's is kept, with a key of the rules definition alone and a key of
\* the metadata definition alone; and a pack from a bare list with a meta
\* key of its metadata definition
C17_Witness ==
    /\ pc = "loaded"
    /\ \E k \in DOMAIN packs :
          LET d == VisitedWithRules[k]
          IN  /\ IsMappingFile(d.rules)
              /\ Truthy(MetaOfFile(d.rules).d.policy_id)
              /\ Truthy(MetaOfFile(d.meta).d.policy_id)
              /\ MetaOfFile(d.rules).d.policy_id # MetaOfFile(d.meta).d.policy_id
              /\ packs[k].d.meta.d.policy_id = MetaOfFile(d.meta).d.policy_id
              /\ MetaOfFile(d.meta).d.market = VAbsent
              /\ Truthy(packs[k].d.meta.d.market)
              /\ MetaOfFile(d.rules).d.categories = VAbsent
              /\ Truthy(packs[k].d.meta.d.categories)
    /\ \E k \in DOMAIN packs :
          /\ IsListFile(VisitedWithRules[k].rules)
          /\ Truthy(packs[k].d.meta.d.market)
          /\ Len(packs[k].d.rules.l) = 3

\* the invocation has returned or raised
Finished(c) == c_pc[c] \in {"done", "raised"}

\* C18: two invocations of validate_with_rules with the same item and the
\* same rule list end alike (the same findings, or the same exception),
\* whichever ran first and however other invocations fell in between; every
\* invocation still holds the rule list its caller handed it.
C18_SameInputsSameFindings ==
    /\ \A c, d \in Calls :
          (/\ Finished(c)
           /\ Finished(d)
           /\ c_sku[c] = c_sku[d]
           /\ c_rules[c] = c_rules[d])
          => c_out[c] = c_out[d]
    /\ \A c \in DOMAIN c_rules : c_rules[c] = rules \/ c_rules[c] = Records(rules)

\* two invocations on the same item and the same two rules have both returned
\* two findings, one of them a failure
C18_Witness ==
    /\ pc = "calls"
    /\ c_sku[1] = c_sku[2]
    /\ c_rules[1] = c_rules[2]
    /\ c_pc[1] = "done"
    /\ c_pc[2] = "done"
    /\ Len(c_out[1].v) = 2
    /\ c_out[1] = c_out[2]
    /\ \E k \in DOMAIN c_out[1].v : ~c_out[1].v[k].passed

\* the rules an invocation's loop has gone through
Gone(c) == SubSeq(c_rules[c], 1, c_idx[c] - 1)

\* C19: under every interleaving of the steps of invocations that share one
\* rule list, the findings an invocation has collected are at every moment
\* those of the rules it has gone through, run alone; it ends as it ends run
\* alone; and the shared list stays as the caller built it.
C19_InterleavedAsAlone ==
    \A c \in DOMAIN c_pc :
        /\ c_pc[c] = "running" =>
              Ok(lists[c_list[c]]) = validate_with_rules(c_sku[c], Gone(c))
        /\ Finished(c) => c_out[c] = validate_with_rules(c_sku[c], c_rules[c])
        /\ (c_rules[1] = c_rules[c]) => c_rules[c] = rules

\* two invocations on different items, both halfway through the shared list,
\* each holding a finding of its own
C19_Witness ==
    /\ pc = "calls"
    /\ c_sku[1] # c_sku[2]
    /\ c_rules[1] = c_rules[2]
    /\ Len(c_rules[1]) = 2
    /\ c_pc[1] = "running"
    /\ c_pc[2] = "running"
    /\ c_idx[1] = 2
    /\ c_idx[2] = 2
    /\ Len(lists[c_list[1]]) = 1
    /\ Len(lists[c_list[2]]) = 1
    /\ lists[c_list[1]] # lists[c_list[2]]

\* d was handed the Rule records of the mappings c was handed
RecordsOf(c, d) ==
    /\ \A k \in DOMAIN c_rules[c] : HasRequiredFields(c_rules[c][k])
    /\ c_rules[d] = Records(c_rules[c])

\* C20: an invocation on a list of mappings and an invocation on the same item
\* with the list of their Rule records (the same fields, the dataclass
\* defaults for the keys a mapping omits) end with equal findings.
C20_MappingAsRecord ==
    \A c, d \in DOMAIN c_pc :
        (/\ Finished(c)
         /\ Finished(d)
         /\ c_sku[c] = c_sku[d]
         /\ RecordsOf(c, d))
        => c_out[c] = c_out[d]

\* a list of two mappings, one without severity and message, and the list of
\* their records have given the same two findings
C20_Witness ==
    /\ pc = "calls"
    /\ c_pc[1] = "done"
    /\ c_pc[2] = "done"
    /\ c_sku[1] = c_sku[2]
    /\ Len(c_rules[1]) = 2
    /\ RecordsOf(1, 2)
    /\ c_rules[1] # c_rules[2]
    /\ \E k \in DOMAIN c_rules[1] :
          c_rules[1][k].d.severity = VAbsent /\ c_rules[1][k].d.message = VAbsent
    /\ Len(c_out[1].v) = 2
    /\ c_out[1] = c_out[2]

\* the one rule of a check-library run, and the field of the item it is about
LibType == rules[1].d.type.s

LibSection == rules[1].d.section.s

LibField ==
    CASE LibSection = << "t", "i", "t", "l", "e" >>       -> sku.title
      [] LibSection = << "b", "u", "l", "l", "e", "t", "s" >>     -> sku.bullets
      [] LibSection = << "d", "e", "s", "c", "r", "i", "p", "t", "i", "o", "n" >> -> sku.description
      [] LibSection = << "i", "m", "a", "g", "e", "s" >>      -> sku.image_urls

LibDone == pc = "done" /\ Len(rules) = 1 /\ Len(findings) = 1

LibIntValue ==
    /\ rules[1].d.params.t = "dict"
    /\ rules[1].d.params.d.value.t = "int"

\* C22: with an integer value parameter, max_length passes exactly when the
\* string's length is at most the value and min_length exactly when it is at
\* least the value; max_count and min_count likewise on the item count of a
\* list.
C22_InclusiveBounds ==
    (LibDone /\ LibType \in NumericTypes /\ LibIntValue) =>
        LET v == rules[1].d.params.d.value.n
            f == LibField
            passed == findings[1].passed
        IN  /\ (LibType = << "m", "a", "x", "_", "l", "e", "n", "g", "t", "h" >> /\ f.t = "str") => (passed <=> Len(f.s) <= v)
            /\ (LibType = << "m", "i", "n", "_", "l", "e", "n", "g", "t", "h" >> /\ f.t = "str") => (passed <=> Len(f.s) >= v)
            /\ (LibType = << "m", "a", "x", "_", "c", "o", "u", "n", "t" >> /\ f.t = "list") => (passed <=> Len(f.l) <= v)
            /\ (LibType = << "m", "i", "n", "_", "c", "o", "u", "n", "t" >> /\ f.t = "list") => (passed <=> Len(f.l) >= v)

\* max_count fails on a list one item longer than its value; the same rule
\* passes on a list of exactly that many items in another run
C22_Witness ==
    /\ LibDone
    /\ LibType = << "m", "a", "x", "_", "c", "o", "u", "n", "t" >>
    /\ LibIntValue
    /\ LibField.t = "list"
    /\ rules[1].d.params.d.value.n >= 1
    /\ Len(LibField.l) = rules[1].d.params.d.value.n + 1
    /\ findings[1].passed = FALSE

\* the punctuation set of a no_ending_punct rule
PunctuationSet ==
    IF rules[1].d.params.t = "dict" /\ rules[1].d.params.d.punctuation.t = "str"
    THEN Range(rules[1].d.params.d.punctuation.s)
    ELSE { ".", ";", ":", "!" }

TrailingSpace == { " ", "\t", "\n" }

\* the item without its trailing whitespace
RECURSIVE Trimmed(_)
Trimmed(s) ==
    IF s # << >> /\ s[Len(s)] \in TrailingSpace THEN Trimmed(SubSeq(s, 1, Len(s) - 1)) ELSE s

\* a non-empty item whose last character after trimming is in the set
EndsInPunctuation(v) ==
    /\ v.t = "str"
    /\ v.s # << >>
    /\ Trimmed(v.s) # << >>
    /\ Trimmed(v.s)[Len(Trimmed(v.s))] \in PunctuationSet

\* C23: no_ending_punct on a list passes exactly when no non-empty item ends,
\* after trimming trailing whitespace, in a character of the punctuation set;
\* an empty item, or one with nothing left after trimming, never fails it.
C23_PassesIffNoTrailingPunct ==
    (LibDone /\ LibType = << "n", "o", "_", "e", "n", "d", "i", "n", "g", "_", "p", "u", "n", "c", "t" >> /\ LibField.t = "list") =>
        (findings[1].passed <=> ~ \E i \in DOMAIN LibField.l : EndsInPunctuation(LibField.l[i]))

\* the first alphabetic character of the item, if it has one, is upper case;
\* bullet markers and whitespace are not alphabetic, so stripping them from
\* the front does not change which character that is
FirstAlphaIsUpper(v) ==
    v.t = "str" =>
        \A k \in DOMAIN v.s :
            (IsAlphaChar(v.s[k]) /\ \A j \in 1..(k - 1) : ~IsAlphaChar(v.s[j])) =>
                v.s[k] \in Range(UpperChars)

\* C24: bullets_capitalized on a list passes exactly when in every item the
\* first alphabetic character after the leading markers and whitespace is
\* upper case; empty items and items without a letter pass.
C24_FirstLetterUpper ==
    (LibDone /\ LibType = << "b", "u", "l", "l", "e", "t", "s", "_", "c", "a", "p", "i", "t", "a", "l", "i", "z", "e", "d" >> /\ LibField.t = "list") =>
        (findings[1].passed <=> \A i \in DOMAIN LibField.l : FirstAlphaIsUpper(LibField.l[i]))

\* a passing list of a numbered bullet, whose first letter comes after a digit
\* and a space, and a marked bullet
C24_Witness ==
    /\ LibDone
    /\ LibType = << "b", "u", "l", "l", "e", "t", "s", "_", "c", "a", "p", "i", "t", "a", "l", "i", "z", "e", "d" >>
    /\ LibField = VList(<< VStr(<< "2", " ", "O", "k" >>), VStr(<< "-", " ", "O", "k", "!" >>) >>)
    /\ findings[1].passed = TRUE

IsWordChar(c) == IsAlphaChar(c) \/ IsDigitChar(c)

\* the word stands at position k of the text as a whole word: no letter or
\* digit touches it on either side
StandsAlone(text, word, k) ==
    /\ k + Len(word) - 1 <= Len(text)
    /\ SubSeq(text, k, k + Len(word) - 1) = word
    /\ k > 1 => ~IsWordChar(text[k - 1])
    /\ k + Len(word) <= Len(text) => ~IsWordChar(text[k + Len(word)])

HasNumberToken(v) ==
    /\ v.t = "str"
    /\ \E word \in _NUMBER_WORDS : \E k \in DOMAIN v.s : StandsAlone(Lower(v.s), word, k)

\* C25: bullets_numbers_as_numerals on a list fails exactly when some item
\* holds one of the number words zero to twelve, in any case, as a whole
\* word, whether spaces, punctuation or the ends of the item bound it.
C25_FailsIffStandaloneNumberWord ==
    (LibDone /\ LibType = << "b", "u", "l", "l", "e", "t", "s", "_", "n", "u", "m", "b", "e", "r", "s", "_", "a", "s", "_", "n", "u", "m", "e", "r", "a", "l", "s" >> /\ LibField.t = "list") =>
        (findings[1].passed = FALSE <=> \E i \in DOMAIN LibField.l : HasNumberToken(LibField.l[i]))

StringSectionNames == { << "t", "i", "t", "l", "e" >>, << "d", "e", "s", "c", "r", "i", "p", "t", "i", "o", "n" >> }

\* C27: a missing section value is checked as the empty value of its shape:
\* on a None title or description min_length with value >= 1 fails and
\* max_length with value >= 0 passes; on None bullets or images min_count
\* with value >= 1 fails and max_count with value >= 0 passes.
C27_MissingIsEmpty ==
    (LibDone /\ LibType \in NumericTypes /\ LibIntValue /\ LibField = VNone) =>
        LET v == rules[1].d.params.d.value.n
            onText == LibSection \in StringSectionNames
        IN  /\ (LibType = << "m", "i", "n", "_", "l", "e", "n", "g", "t", "h" >> /\ onText /\ v >= 1) => findings[1].passed = FALSE
            /\ (LibType = << "m", "a", "x", "_", "l", "e", "n", "g", "t", "h" >> /\ onText /\ v >= 0) => findings[1].passed = TRUE
            /\ (LibType = << "m", "i", "n", "_", "c", "o", "u", "n", "t" >> /\ ~onText /\ v >= 1) => findings[1].passed = FALSE
            /\ (LibType = << "m", "a", "x", "_", "c", "o", "u", "n", "t" >> /\ ~onText /\ v >= 0) => findings[1].passed = TRUE

\* a min_count rule with value 1 failed on an item without images
C27_Witness ==
    /\ LibDone
    /\ LibType = << "m", "i", "n", "_", "c", "o", "u", "n", "t" >>
    /\ LibSection = << "i", "m", "a", "g", "e", "s" >>
    /\ sku.image_urls = VNone
    /\ LibIntValue
    /\ rules[1].d.params.d.value.n = 1
    /\ findings[1].passed = FALSE

\* the rule ids of every loaded pack are unique within the pack
IdsUniqueWithinPacks ==
    \A p \in DOMAIN packs :
        \A i, j \in DOMAIN packs[p].d.rules.l :
            i # j => packs[p].d.rules.l[i].d.id # packs[p].d.rules.l[j].d.id

\* the positions in rules of the rules gone through so far that got a finding
EvaluatedIdx == SelectSeq([ i \in 1..(idx - 1) |-> i ], LAMBDA i : Counted(rules[i]))

\* C26: with rule ids unique within each pack, no two findings for one item
\* that come from rules of different packs have the same rule_id.
C26_NamespacedIdsDistinct ==
    (pc \in {"validating", "done"} /\ root # << >> /\ IdsUniqueWithinPacks) =>
        LET from == Passing
            at == EvaluatedIdx
        IN  \A k, m \in DOMAIN findings :
                from[at[k]][1] # from[at[m]][1] => findings[k].rule_id # findings[m].rule_id

\* the positions of the client's findings that failed, in the section if one
\* is given
FailedIn(section) ==
    { k \in DOMAIN findings :
        ~findings[k].passed /\ (section = VNone \/ findings[k].section = section) }

HasErrorSeverity(k) == findings[k].severity = VStr(<< "e", "r", "r", "o", "r" >>)

SectionFilters == { VNone } \cup { VStr(s) : s \in Sections }

\* the client column of the row of the table with this section and metric
ClientCell(section, metric) ==
    LET r == CHOOSE r \in Range(table) : r.section = section /\ r.metric = metric
    IN  r.client

\* C30: for every section filter the errors and warnings of _policy_counts
\* add up to the number of failed findings, a failed finding being an error
\* exactly when its severity is "error", and do not exceed the total; the
\* overall errors (warnings) row is the sum of the title, bullets and
\* description rows plus the failed error (other) findings on images.
C30_CountsPartitionFailed ==
    (pc = "compared") =>
        /\ \A s \in SectionFilters :
              LET c == _policy_counts(findings, s)
              IN  /\ c.errors + c.warnings = Cardinality(FailedIn(s))
                  /\ c.errors = Cardinality({ k \in FailedIn(s) : HasErrorSeverity(k) })
                  /\ c.warnings = Cardinality({ k \in FailedIn(s) : ~HasErrorSeverity(k) })
                  /\ c.errors + c.warnings <= c.total
        /\ ClientCell(<< "p", "o", "l", "i", "c", "y", ":", "o", "v", "e", "r", "a", "l", "l" >>, << "r", "u", "l", "e", "s", "_", "t", "o", "t", "a", "l" >>) = Len(findings)
        /\ ClientCell(<< "p", "o", "l", "i", "c", "y", ":", "o", "v", "e", "r", "a", "l", "l" >>, << "e", "r", "r", "o", "r", "s" >>) =
              ClientCell(<< "p", "o", "l", "i", "c", "y", ":", "t", "i", "t", "l", "e" >>, << "e", "r", "r", "o", "r", "s" >>) + ClientCell(<< "p", "o", "l", "i", "c", "y", ":", "b", "u", "l", "l", "e", "t", "s" >>, << "e", "r", "r", "o", "r", "s" >>)
              + ClientCell(<< "p", "o", "l", "i", "c", "y", ":", "d", "e", "s", "c", "r", "i", "p", "t", "i", "o", "n" >>, << "e", "r", "r", "o", "r", "s" >>)
              + Cardinality({ k \in FailedIn(VStr(<< "i", "m", "a", "g", "e", "s" >>)) : HasErrorSeverity(k) })
        /\ ClientCell(<< "p", "o", "l", "i", "c", "y", ":", "o", "v", "e", "r", "a", "l", "l" >>, << "w", "a", "r", "n", "i", "n", "g", "s" >>) =
              ClientCell(<< "p", "o", "l", "i", "c", "y", ":", "t", "i", "t", "l", "e" >>, << "w", "a", "r", "n", "i", "n", "g", "s" >>) + ClientCell(<< "p", "o", "l", "i", "c", "y", ":", "b", "u", "l", "l", "e", "t", "s" >>, << "w", "a", "r", "n", "i", "n", "g", "s" >>)
              + ClientCell(<< "p", "o", "l", "i", "c", "y", ":", "d", "e", "s", "c", "r", "i", "p", "t", "i", "o", "n" >>, << "w", "a", "r", "n", "i", "n", "g", "s" >>)
              + Cardinality({ k \in FailedIn(VStr(<< "i", "m", "a", "g", "e", "s" >>)) : ~HasErrorSeverity(k) })

\* the table of a list with a failed finding without severity on images and
\* a failed error on bullets: one error, one warning overall
C30_Witness ==
    /\ pc = "compared"
    /\ Len(table) = 9
    /\ \E k \in DOMAIN findings :
          findings[k].section = VStr(<< "i", "m", "a", "g", "e", "s" >>) /\ findings[k].severity = VAbsent
    /\ ClientCell(<< "p", "o", "l", "i", "c", "y", ":", "b", "u", "l", "l", "e", "t", "s" >>, << "e", "r", "r", "o", "r", "s" >>) = 1
    /\ ClientCell(<< "p", "o", "l", "i", "c", "y", ":", "o", "v", "e", "r", "a", "l", "l" >>, << "e", "r", "r", "o", "r", "s" >>) = 1
    /\ ClientCell(<< "p", "o", "l", "i", "c", "y", ":", "o", "v", "e", "r", "a", "l", "l" >>, << "w", "a", "r", "n", "i", "n", "g", "s" >>) = 1

\* C21: run_compare returns exactly three suggestions, whatever the generator
\* returned and whatever the client item and its findings are.
C21_AlwaysThreeSuggestions ==
    pc = "returned" => Len(result.suggestions) = 3

\* the positions of the compare commands that ran to their end
Compares == { i \in 1..Len(log) : log[i].cmd = "compare" }

\* the last of them
LastCompare == CHOOSE i \in Compares : \A j \in Compares : j <= i

LastCmd == log[Len(log)].cmd

\* C28: after a validate command the client stored in the session results
\* (title, bullets, description) is what the last compare stored
C28_ValidateLeavesStoredClient ==
    (log # << >> /\ LastCmd = "validate" /\ ~NoResults)
        => StoredClient = log[LastCompare].stored

\* C29: approved is true only with a result stored and an approve issued
\* after the most recent compare; a compare leaves approved false; and with
\* no compare so far, whatever the commands issued, no result is stored and
\* approved is false.  A compare that raises (an id missing, an item not
\* found) stores nothing and ends the program: it is not counted as a compare
C29_ApprovedOnlyAfterCompareThenApprove ==
    /\ state.approved =>
          /\ ~NoResults
          /\ Compares # {}
          /\ \E i \in 1..Len(log) : log[i].cmd = "approve" /\ i > LastCompare
    /\ (log # << >> /\ LastCmd = "compare") => (~state.approved /\ ~NoResults)
    /\ Compares = {} => (NoResults /\ ~state.approved /\ blists = << >>)

\* approved by an approve and reset by the compare that followed
C29_Witness ==
    /\ Len(log) = 3
    /\ log[1].cmd = "compare" /\ log[2].cmd = "approve" /\ log[3].cmd = "compare"
    /\ ~state.approved
    /\ ~NoResults

====
